---- MODULE Spec2Model ----
(***************************************************************************)
(* Device-twin synchronizer of the Azure Sphere learning path              *)
(* (device_twins.c, src/unnamed/part_000 lines 1-258) as a state machine,  *)
(* and the main programs that run it (samples/zdemo_hello_world_avnet/     *)
(* main.c; src/unnamed/part_000 lines 259-527).                            *)
(*                                                                         *)
(* Text (property names, JSON strings, report fragments) is a sequence of  *)
(* one-character strings.  A JSON number is held in half units: the        *)
(* integer h stands for the number h/2, so 84 is 42 and 3 is 1.5.          *)
(***************************************************************************)
EXTENDS Integers, Sequences, FiniteSets, TLC

VARIABLES
    deviceTwinSet,     \* the application's binding array: twinProperty, twinType, handler
    twinState,         \* twinState[i]: the storage reference of binding i
    deviceTwinCount,   \* _deviceTwinCount
    halt,              \* "run", "exit" (Terminate), "fault" (NULL dereference)
    last,              \* the last operation: its name, inputs and ordered effects
    app,               \* the main program that runs (none: the operations are called directly)
    scopeId,           \* the scope id lp_processCmdArgs took from the command line
    pc,                \* where main is
    terminationRequired,   \* what lp_isTerminationRequired() answers
    exitCode,          \* what lp_getTerminationExitCode() answers
    returned,          \* the value main returned, "none" while it runs
    running,           \* the peripherals, sets and services that are open or started
    calls,             \* the lp_ calls and event-loop events of main so far, in order
    led1BlinkIntervalIndex,   \* the static of that name
    timers,            \* timers[t]: the time set on timer t, <<0, 0>> while it is disarmed
    gpio,              \* gpio[p]: output peripheral p is on
    led_state,         \* the static of Led1BlinkHandler
    msgId              \* the static of MeasureSensorHandler

timerVars == <<led1BlinkIntervalIndex, timers, gpio, led_state, msgId>>

mainVars == <<app, scopeId, pc, terminationRequired, exitCode, returned, running, calls,
              timerVars>>

vars == <<deviceTwinSet, twinState, deviceTwinCount, halt, last, mainVars>>

(***************************************************************************)
(* Bounds of the model.                                                    *)
(***************************************************************************)
MaxGarbage == 1        \* malloc returns storage holding any of 0..MaxGarbage
MaxLoops == 2          \* events the main loop handles before the termination signal
MaxMsgId == 2          \* telemetry messages MeasureSensorHandler numbers

Abs(k) == IF k < 0 THEN -k ELSE k
Min(a, b) == IF a < b THEN a ELSE b

(***************************************************************************)
(* Text.                                                                   *)
(***************************************************************************)
Digits == <<"0", "1", "2", "3", "4", "5", "6", "7", "8", "9">>

RECURSIVE DecStr(_)
\* the decimal digits of n >= 0, as printf writes them
DecStr(n) == IF n < 10 THEN <<Digits[n + 1]>>
             ELSE DecStr(n \div 10) \o <<Digits[(n % 10) + 1]>>

RECURSIVE ZeroPad(_, _)
\* s padded on the left with "0" to width w
ZeroPad(s, w) == IF Len(s) >= w THEN s ELSE ZeroPad(<<"0">> \o s, w)

\* printf("%d", k)
FmtD(k) == IF k < 0 THEN <<"-">> \o DecStr(-k) ELSE DecStr(k)

\* printf("%f", x) for the float x = h/2: six decimals, which are exact for halves
FmtF(h) ==
    (IF h < 0 THEN <<"-">> ELSE <<>>)
        \o DecStr(Abs(h) \div 2) \o <<".">>
        \o ZeroPad(DecStr(((Abs(h) % 2) * 1000000) \div 2), 6)

\* the conditional at lines 185 and 223: b ? "true" : "false"
FmtB(b) == IF b THEN <<"t", "r", "u", "e">> ELSE <<"f", "a", "l", "s", "e">>

K_desired == <<"d", "e", "s", "i", "r", "e", "d">>
K_value == <<"v", "a", "l", "u", "e">>
N_temp == <<"t", "e", "m", "p">>
N_led == <<"l", "e", "d">>
N_a == <<"a">>
N_b == <<"b">>
N_a_b == <<"a", ".", "b">>
S_on == <<"o", "n">>
S_long == <<"a", "b", "c", "d", "e", "f", "g", "h", "i", "j",
            "k", "l", "m", "n", "o", "p", "q", "r", "s", "t">>

(***************************************************************************)
(* Narrowing conversions of a JSON number (a C double) h/2.                *)
(***************************************************************************)
\* a conversion that rounds down instead of toward zero
CastInt_Floor(h) == h \div 2

\* a conversion that rounds to the nearest integer, halves upward
CastInt_Nearest(h) == (h + 1) \div 2

\* (int)x: the fractional part is discarded (toward zero).  The numbers of
\* the model lie within the range of int, where the conversion is defined.
CastInt(h) == IF h >= 0 THEN h \div 2 ELSE -((-h) \div 2)

RECURSIVE Ulp24(_, _)
\* the least power of two u >= start with m \div u < 2^24
Ulp24(m, u) == IF m \div u < 16777216 THEN u ELSE Ulp24(m, 2 * u)

\* (float)x: x rounded to 24 significant bits, ties to even
RoundToFloat(h) ==
    LET m == Abs(h)
        u == Ulp24(m, 1)
        q == m \div u
        r == m % u
        up == (2 * r > u) \/ (2 * r = u /\ q % 2 = 1)
        res == (IF up THEN q + 1 ELSE q) * u
    IN  IF h < 0 THEN -res ELSE res

(***************************************************************************)
(* JSON values as the parser hands them over.  t is the JSON type; an      *)
(* object's members m are <<name, value>> pairs in document order.         *)
(***************************************************************************)
JV(t, n, b, s, m) == [t |-> t, n |-> n, b |-> b, s |-> s, m |-> m]
JNone == JV("none", 0, FALSE, <<>>, <<>>)       \* a NULL JSON_Value* / JSON_Object*
JNum(h) == JV("num", h, FALSE, <<>>, <<>>)
JBool(b) == JV("bool", 0, b, <<>>, <<>>)
JStr(s) == JV("str", 0, FALSE, s, <<>>)
JArr == JV("arr", 0, FALSE, <<>>, <<>>)
JObj(m) == JV("obj", 0, FALSE, <<>>, m)

RECURSIVE MemberFrom(_, _, _)
MemberFrom(m, name, k) ==
    IF k > Len(m) THEN JNone
    ELSE IF m[k][1] = name THEN m[k][2]
    ELSE MemberFrom(m, name, k + 1)

\* json_object_get_value: NULL for a NULL object or a missing name
json_object_get_value(obj, name) ==
    IF obj.t # "obj" THEN JNone ELSE MemberFrom(obj.m, name, 1)

\* json_value_get_object: NULL unless the value is an object
json_value_get_object(v) == IF v.t = "obj" THEN v ELSE JNone

RECURSIVE DotAt(_, _)
\* index of the first "." of name at or after k, 0 if there is none (strchr)
DotAt(name, k) ==
    IF k > Len(name) THEN 0
    ELSE IF name[k] = "." THEN k
    ELSE DotAt(name, k + 1)

RECURSIVE json_object_dotget_value(_, _)
json_object_dotget_value(obj, name) ==
    LET d == DotAt(name, 1)
    IN  IF d = 0 THEN json_object_get_value(obj, name)
        ELSE json_object_dotget_value(
                 json_value_get_object(json_object_get_value(obj, SubSeq(name, 1, d - 1))),
                 SubSeq(name, d + 1, Len(name)))

json_object_dotget_object(obj, name) ==
    json_value_get_object(json_object_dotget_value(obj, name))

\* a check for the presence of the name only, whatever the type
json_object_has_value(obj, name, t) ==
    json_object_get_value(obj, name).t # "none"

json_object_has_value_of_type(obj, name, t) ==
    json_object_get_value(obj, name).t = t

(***************************************************************************)
(* Storage.  twinState[i] is NULL or refers to a cell holding a value of   *)
(* the binding's type (n: the int, or the float in half units).            *)
(***************************************************************************)
Cell(t, n, b, s) == [t |-> t, n |-> n, b |-> b, s |-> s]
NULL == Cell("NULL", 0, FALSE, <<>>)
IntCell(k) == Cell("int", k, FALSE, <<>>)
FloatCell(h) == Cell("float", h, FALSE, <<>>)
BoolCell(b) == Cell("bool", 0, b, <<>>)
StrRef(s) == Cell("str", 0, FALSE, s)

TYPE_UNKNOWN == "TYPE_UNKNOWN"
TYPE_BOOL == "TYPE_BOOL"
TYPE_FLOAT == "TYPE_FLOAT"
TYPE_INT == "TYPE_INT"
TYPE_STRING == "TYPE_STRING"

\* a DeviceTwinBinding as the application declares it (twinState is kept apart)
Binding(p, t, h) == [twinProperty |-> p, twinType |-> t, handler |-> h]

(***************************************************************************)
(* The effects of an operation, in the order the code produces them.       *)
(*   malloc(i, ok)   free(i)   Terminate(i)   fault(i)                     *)
(*   store(i, val)   handler(i, val seen)   clear(i)                       *)
(*   connect(i, ok)  send(i, frag, ok)   ret(i, ok)                        *)
(***************************************************************************)
Ev(e, i, val, frag, ok) == [e |-> e, i |-> i, val |-> val, frag |-> frag, ok |-> ok]

\* the running machine: storage references, effects so far, halt status
Emit(st, ev) == [st EXCEPT !.log = Append(@, ev)]
SetState(st, i, c) == [st EXCEPT !.ts[i] = c]
\* a read or write through a NULL twinState: the process faults
Fault(st, i) == [Emit(st, Ev("fault", i, NULL, <<>>, FALSE)) EXCEPT !.halt = "fault"]

(***************************************************************************)
(* 4.1 Binding registry.                                                   *)
(***************************************************************************)
\* Terminate() is declared outside this file: the process ends (spec 4.1, 7)
Terminate(st, i) ==
    [Emit(st, Ev("Terminate", i, NULL, <<>>, FALSE)) EXCEPT !.halt = "exit"]

\* malloc(sizeof(T)): g < 0 is a failed allocation (NULL); otherwise fresh
\* storage whose content g is whatever the heap held
Malloc(t, g) ==
    IF g < 0 THEN NULL
    ELSE CASE t = TYPE_INT -> IntCell(g)
           [] t = TYPE_FLOAT -> FloatCell(g)
           [] t = TYPE_BOOL -> BoolCell(g # 0)
           [] OTHER -> NULL

\* an open that allocates without looking at TYPE_UNKNOWN first
OpenDeviceTwin_NoTypeCheck(st, i, g) ==
    LET t == deviceTwinSet[i].twinType
    IN  IF t \in {TYPE_INT, TYPE_FLOAT, TYPE_BOOL}
        THEN Emit(SetState(st, i, Malloc(t, g)),
                  Ev("malloc", i, Malloc(t, g), <<>>, g >= 0))
        ELSE st

OpenDeviceTwin(st, i, g) ==
    LET t == deviceTwinSet[i].twinType
    IN  IF t = TYPE_UNKNOWN THEN Terminate(st, i)
        ELSE IF t \in {TYPE_INT, TYPE_FLOAT, TYPE_BOOL}
        THEN Emit(SetState(st, i, Malloc(t, g)),
                  Ev("malloc", i, Malloc(t, g), <<>>, g >= 0))
        ELSE st

RECURSIVE OpenFrom(_, _, _, _)
\* the loop of OpenDeviceTwinSet from index i on
OpenFrom(st, i, count, heap) ==
    IF i > count \/ st.halt # "run" THEN st
    ELSE OpenFrom(OpenDeviceTwin(st, i, heap[i]), i + 1, count, heap)

CloseDeviceTwin(st, i) ==
    IF st.ts[i] # NULL
    THEN SetState(Emit(st, Ev("free", i, st.ts[i], <<>>, TRUE)), i, NULL)
    ELSE st

RECURSIVE CloseFrom(_, _, _)
\* the loop of CloseDeviceTwinSet from index i on
CloseFrom(st, i, count) ==
    IF i > count THEN st
    ELSE CloseFrom(CloseDeviceTwin(st, i), i + 1, count)

(***************************************************************************)
(* 4.3 Outbound reported-state publication.  net is what the transport     *)
(* does during the call: "offline" (ConnectToAzureIot fails), "reject"     *)
(* (connected, SendReportedState refuses), "ok".                           *)
(***************************************************************************)
Net == {"offline", "reject", "ok"}

\* capacity of reportedPropertiesString (device_twins.h)
DEVICE_TWIN_REPORT_LEN == 30

\* snprintf(buf, DEVICE_TWIN_REPORT_LEN, ...): returns the length of the whole
\* text and keeps what fits before the terminating 0
Snprintf(text) ==
    [len |-> Len(text),
     buf |-> SubSeq(text, 1, Min(Len(text), DEVICE_TWIN_REPORT_LEN - 1))]

\* "{\"%s\":" with the property name, then the value text, then "}"
Fragment(name, valueText) ==
    <<"{", "\"">> \o name \o <<"\"", ":">> \o valueText \o <<"}">>

Quoted(s) == <<"\"">> \o s \o <<"\"">>

\* the text the switch formats from a cell of the binding's type
ValueText(t, c) ==
    CASE t = TYPE_INT -> FmtD(c.n)
      [] t = TYPE_FLOAT -> FmtF(c.n)
      [] t = TYPE_BOOL -> FmtB(c.b)
      [] t = TYPE_STRING -> Quoted(c.s)
      [] OTHER -> <<>>

Return(st, i, ok) == Emit(st, Ev("ret", i, NULL, <<>>, ok))

\* a submission that tries once more when the transport refuses
DeviceTwinUpdateReportedState_Retry(st, i, reportedPropertiesString, net) ==
    LET first == Emit(st, Ev("send", i, NULL, reportedPropertiesString, net = "ok"))
    IN  IF net = "ok" THEN Return(first, i, TRUE)
        ELSE Return(Emit(first, Ev("send", i, NULL, reportedPropertiesString, FALSE)),
                    i, FALSE)

DeviceTwinUpdateReportedState(st, i, reportedPropertiesString, net) ==
    Return(Emit(st, Ev("send", i, NULL, reportedPropertiesString, net = "ok")),
           i, net = "ok")

\* the tail both publish variants share: len == 0 check, then submission
Submit(st, i, out, net) ==
    IF out.len = 0 THEN Return(st, i, FALSE)
    ELSE DeviceTwinUpdateReportedState(st, i, out.buf, net)

TwinReportState(st, i, net) ==
    LET b == deviceTwinSet[i]
        c == st.ts[i]
        st1 == Emit(st, Ev("connect", i, NULL, <<>>, net # "offline"))
    IN  IF net = "offline" THEN Return(st1, i, FALSE)
        ELSE IF b.twinType \in {TYPE_INT, TYPE_FLOAT, TYPE_BOOL, TYPE_STRING}
        THEN IF c = NULL THEN Fault(st1, i)
             ELSE Submit(st1, i,
                         Snprintf(Fragment(b.twinProperty, ValueText(b.twinType, c))),
                         net)
        ELSE Submit(st1, i, [len |-> 0, buf |-> <<>>], net)

\* a publish that tries the submission without asking for the connection
DeviceTwinReportState_Unconnected(st, i, v, net) ==
    IF i = 0 THEN Return(st, i, FALSE)
    ELSE
    LET b == deviceTwinSet[i]
        st1 == Emit(st, Ev("connect", i, NULL, <<>>, net # "offline"))
    IN  IF b.twinType \in {TYPE_INT, TYPE_FLOAT, TYPE_BOOL}
        THEN IF st1.ts[i] = NULL THEN Fault(st1, i)
             ELSE Submit(Emit(SetState(st1, i, v), Ev("store", i, v, <<>>, TRUE)), i,
                         Snprintf(Fragment(b.twinProperty, ValueText(b.twinType, v))),
                         net)
        ELSE Return(st1, i, FALSE)

\* a publish that formats the supplied value without writing it to the binding
DeviceTwinReportState_NoStore(st, i, v, net) ==
    IF i = 0 THEN Return(st, i, FALSE)
    ELSE
    LET b == deviceTwinSet[i]
        st1 == Emit(st, Ev("connect", i, NULL, <<>>, net # "offline"))
    IN  IF net = "offline" THEN Return(st1, i, FALSE)
        ELSE IF b.twinType \in {TYPE_INT, TYPE_FLOAT, TYPE_BOOL, TYPE_STRING}
        THEN Submit(st1, i,
                    Snprintf(Fragment(b.twinProperty, ValueText(b.twinType, v))),
                    net)
        ELSE Submit(st1, i, [len |-> 0, buf |-> <<>>], net)

\* i = 0 is a NULL binding; state refers to a value v of the binding's type
DeviceTwinReportState(st, i, v, net) ==
    IF i = 0 THEN Return(st, i, FALSE)
    ELSE
    LET b == deviceTwinSet[i]
        st1 == Emit(st, Ev("connect", i, NULL, <<>>, net # "offline"))
    IN  IF net = "offline" THEN Return(st1, i, FALSE)
        ELSE IF b.twinType \in {TYPE_INT, TYPE_FLOAT, TYPE_BOOL}
        THEN IF st1.ts[i] = NULL THEN Fault(st1, i)
             ELSE Submit(Emit(SetState(st1, i, v), Ev("store", i, v, <<>>, TRUE)), i,
                         Snprintf(Fragment(b.twinProperty, ValueText(b.twinType, v))),
                         net)
        ELSE IF b.twinType = TYPE_STRING
        THEN Submit(Emit(SetState(st1, i, NULL), Ev("clear", i, NULL, <<>>, TRUE)), i,
                    Snprintf(Fragment(b.twinProperty, Quoted(v.s))),
                    net)
        ELSE Submit(st1, i, [len |-> 0, buf |-> <<>>], net)

(***************************************************************************)
(* 4.2 Inbound desired-state dispatch.                                     *)
(***************************************************************************)
\* the JSON type each case of the switch asks for
WantedJsonType(t) ==
    CASE t \in {TYPE_INT, TYPE_FLOAT} -> "num"
      [] t = TYPE_BOOL -> "bool"
      [] t = TYPE_STRING -> "str"
      [] OTHER -> "never"

\* the value the case stores, converted from the JSON value jv
Converted(t, jv) ==
    CASE t = TYPE_INT -> IntCell(CastInt(jv.n))
      [] t = TYPE_FLOAT -> FloatCell(RoundToFloat(jv.n))
      [] t = TYPE_BOOL -> BoolCell(jv.b)
      [] OTHER -> StrRef(jv.s)

\* if (handler != NULL) handler(binding): the handler sees the stored value
CallHandler(st, i) ==
    IF deviceTwinSet[i].handler
    THEN Emit(st, Ev("handler", i, st.ts[i], <<>>, TRUE))
    ELSE st

\* a dispatch that leaves the string reference in place
ClearString_Keeps(st, i) == st

\* deviceTwinBinding->twinState = NULL after the report (line 151)
ClearString(st, i) ==
    IF st.halt = "run"
    THEN Emit(SetState(st, i, NULL), Ev("clear", i, NULL, <<>>, TRUE))
    ELSE st

\* a dispatch that stores and notifies but never re-reports
SetDesiredState_NoReport(st, jsonObject, i, net) ==
    LET t == deviceTwinSet[i].twinType
        jv == json_object_get_value(jsonObject, K_value)
        c == Converted(t, jv)
        stored == Emit(SetState(st, i, c), Ev("store", i, c, <<>>, TRUE))
    IN  IF ~json_object_has_value_of_type(jsonObject, K_value, WantedJsonType(t))
        THEN st
        ELSE IF t = TYPE_STRING THEN ClearString(CallHandler(stored, i), i)
        ELSE IF st.ts[i] = NULL THEN Fault(st, i)
        ELSE CallHandler(stored, i)

\* a dispatch that re-reports first and notifies the handler afterwards
SetDesiredState_HandlerLast(st, jsonObject, i, net) ==
    LET t == deviceTwinSet[i].twinType
        jv == json_object_get_value(jsonObject, K_value)
        c == Converted(t, jv)
        stored == Emit(SetState(st, i, c), Ev("store", i, c, <<>>, TRUE))
    IN  IF ~json_object_has_value_of_type(jsonObject, K_value, WantedJsonType(t))
        THEN st
        ELSE IF t = TYPE_STRING
        THEN ClearString(CallHandler(TwinReportState(stored, i, net), i), i)
        ELSE IF st.ts[i] = NULL THEN Fault(st, i)
        ELSE CallHandler(TwinReportState(stored, i, net), i)

SetDesiredState(st, jsonObject, i, net) ==
    LET t == deviceTwinSet[i].twinType
        jv == json_object_get_value(jsonObject, K_value)
        c == Converted(t, jv)
        stored == Emit(SetState(st, i, c), Ev("store", i, c, <<>>, TRUE))
    IN  IF ~json_object_has_value_of_type(jsonObject, K_value, WantedJsonType(t))
        THEN st
        ELSE IF t = TYPE_STRING
        THEN ClearString(TwinReportState(CallHandler(stored, i), i, net), i)
        ELSE IF st.ts[i] = NULL THEN Fault(st, i)
        ELSE TwinReportState(CallHandler(stored, i), i, net)

RECURSIVE DispatchFrom_Down(_, _, _, _, _)
\* a loop that walks the binding set from its last index to its first
DispatchFrom_Down(st, desiredProperties, i, count, nets) ==
    IF i > count \/ st.halt # "run" THEN st
    ELSE LET j == count + 1 - i
             cur == json_object_dotget_object(desiredProperties,
                                              deviceTwinSet[j].twinProperty)
         IN  DispatchFrom_Down(
                 IF cur # JNone THEN SetDesiredState(st, cur, j, nets[j]) ELSE st,
                 desiredProperties, i + 1, count, nets)

RECURSIVE DispatchFrom_StopAtMismatch(_, _, _, _, _)
\* a loop that gives up the document at the first value of the wrong type
DispatchFrom_StopAtMismatch(st, desiredProperties, i, count, nets) ==
    IF i > count \/ st.halt # "run" THEN st
    ELSE LET cur == json_object_dotget_object(desiredProperties,
                                              deviceTwinSet[i].twinProperty)
             wanted == WantedJsonType(deviceTwinSet[i].twinType)
         IN  IF cur # JNone /\ ~json_object_has_value_of_type(cur, K_value, wanted)
             THEN st
             ELSE DispatchFrom_StopAtMismatch(
                      IF cur # JNone THEN SetDesiredState(st, cur, i, nets[i]) ELSE st,
                      desiredProperties, i + 1, count, nets)

RECURSIVE DispatchFrom_ReportsAll(_, _, _, _, _)
\* a loop that re-reports the bindings the document does not mention
DispatchFrom_ReportsAll(st, desiredProperties, i, count, nets) ==
    IF i > count \/ st.halt # "run" THEN st
    ELSE LET cur == json_object_dotget_object(desiredProperties,
                                              deviceTwinSet[i].twinProperty)
         IN  DispatchFrom_ReportsAll(
                 IF cur # JNone THEN SetDesiredState(st, cur, i, nets[i])
                 ELSE TwinReportState(st, i, nets[i]),
                 desiredProperties, i + 1, count, nets)

RECURSIVE DispatchFrom(_, _, _, _, _)
\* the loop of TwinCallback over the registered bindings from index i on
DispatchFrom(st, desiredProperties, i, count, nets) ==
    IF i > count \/ st.halt # "run" THEN st
    ELSE LET cur == json_object_dotget_object(desiredProperties,
                                              deviceTwinSet[i].twinProperty)
         IN  DispatchFrom(
                 IF cur # JNone THEN SetDesiredState(st, cur, i, nets[i]) ELSE st,
                 desiredProperties, i + 1, count, nets)

\* a payload: alloc = the copy buffer could be allocated, parsed = the bytes
\* are JSON, root = the parsed value
Payload(alloc, parsed, root) == [alloc |-> alloc, parsed |-> parsed, root |-> root]

\* a dispatch that answers a document it cannot use with an error report
TwinCallback_ReportsError(st, payload, count, nets) ==
    LET root_object == json_value_get_object(payload.root)
        desired == json_object_dotget_object(root_object, K_desired)
        desiredProperties == IF desired = JNone THEN root_object ELSE desired
    IN  IF ~payload.alloc THEN st
        ELSE IF ~payload.parsed \/ root_object = JNone
        THEN Emit(st, Ev("send", 0, NULL, <<"{", "}">>, TRUE))
        ELSE DispatchFrom(st, desiredProperties, 1, count, nets)

\* a dispatch that always takes the document root as the desired tree
TwinCallback_RootOnly(st, payload, count, nets) ==
    LET root_object == json_value_get_object(payload.root)
    IN  IF ~payload.alloc \/ ~payload.parsed \/ root_object = JNone THEN st
        ELSE DispatchFrom(st, root_object, 1, count, nets)

TwinCallback(st, payload, count, nets) ==
    LET root_object == json_value_get_object(payload.root)
        desired == json_object_dotget_object(root_object, K_desired)
        desiredProperties == IF desired = JNone THEN root_object ELSE desired
    IN  IF ~payload.alloc \/ ~payload.parsed \/ root_object = JNone THEN st
        ELSE DispatchFrom(st, desiredProperties, 1, count, nets)

(***************************************************************************)
(* Inputs: binding sets, payloads, published values.                       *)
(***************************************************************************)
\* the binding sets an application may declare (main.c declares the empty
\* one): every type at either index, with and without a handler
BindingSets ==
    {<<>>,
     <<Binding(N_temp, TYPE_INT, TRUE), Binding(N_led, TYPE_STRING, TRUE)>>,
     <<Binding(N_temp, TYPE_FLOAT, FALSE), Binding(N_led, TYPE_BOOL, TRUE)>>,
     <<Binding(N_temp, TYPE_BOOL, FALSE), Binding(N_led, TYPE_INT, FALSE)>>,
     <<Binding(N_temp, TYPE_STRING, FALSE), Binding(N_led, TYPE_FLOAT, TRUE)>>,
     <<Binding(N_temp, TYPE_UNKNOWN, TRUE), Binding(N_led, TYPE_INT, TRUE)>>,
     <<Binding(N_temp, TYPE_INT, TRUE), Binding(N_led, TYPE_UNKNOWN, TRUE)>>,
     <<Binding(N_a_b, TYPE_BOOL, TRUE)>>}

\* { "value": v }
ValueObj(v) == JObj(<< <<K_value, v>> >>)

\* 42, -1.5, 16777217 (which no float holds)
TempEntries ==
    {JNone, ValueObj(JNum(84)), ValueObj(JNum(-3)), ValueObj(JNum(33554434)),
     ValueObj(JBool(TRUE)), ValueObj(JStr(S_on)),
     JObj(<<>>), JNum(84)}

LedEntries ==
    {JNone, ValueObj(JNum(3)), ValueObj(JBool(FALSE)), ValueObj(JStr(S_long))}

\* the property tree with the entries that are present, in document order
Tree(e1, e2) ==
    JObj((IF e1 = JNone THEN <<>> ELSE << <<N_temp, e1>> >>)
         \o (IF e2 = JNone THEN <<>> ELSE << <<N_led, e2>> >>))

\* the entries of temp that come together with an entry of led
PairedTempEntries == {ValueObj(JNum(84)), ValueObj(JBool(TRUE)), ValueObj(JStr(S_on))}

Trees ==
    {Tree(e1, JNone) : e1 \in TempEntries}
    \cup {Tree(e1, e2) : e1 \in PairedTempEntries \cup {JNone}, e2 \in LedEntries}

\* { "desired": T }
Wrap(T) == JObj(<< <<K_desired, T>> >>)

\* { "temp": { "value": 42 }, "desired": { "temp": { "value": -1.5 } } }
T_DesiredInside ==
    JObj(<< <<N_temp, ValueObj(JNum(84))>>,
            <<K_desired, Tree(ValueObj(JNum(-3)), JNone)>> >>)

\* { "a": { "b": { "value": true } } } and { "a.b": { "value": true } }
T_Path == JObj(<< <<N_a, JObj(<< <<N_b, ValueObj(JBool(TRUE))>> >>)>> >>)
T_DottedMember == JObj(<< <<N_a_b, ValueObj(JBool(TRUE))>> >>)

Payloads ==
    {Payload(FALSE, FALSE, JNone),                  \* no memory for the copy
     Payload(TRUE, FALSE, JNone),                   \* unparsable bytes
     Payload(TRUE, TRUE, JArr),                     \* root is an array
     Payload(TRUE, TRUE, JNum(84))}                 \* root is a number
    \cup {Payload(TRUE, TRUE, T) : T \in Trees}
    \cup {Payload(TRUE, TRUE, Wrap(T)) : T \in Trees}
    \cup {\* "desired" is no object: the root is the tree
          Payload(TRUE, TRUE, JObj(<< <<K_desired, JNum(84)>>,
                                      <<N_temp, ValueObj(JNum(84))>> >>)),
          \* a tree that itself holds a "desired" object, bare and wrapped
          Payload(TRUE, TRUE, T_DesiredInside),
          Payload(TRUE, TRUE, Wrap(T_DesiredInside)),
          \* a dotted name: the path a, b and the single member "a.b"
          Payload(TRUE, TRUE, T_Path),
          Payload(TRUE, TRUE, T_DottedMember)}

\* the values an application publishes for a binding of type t
StateValues(t) ==
    CASE t = TYPE_INT -> {IntCell(42), IntCell(-7)}
      [] t = TYPE_FLOAT -> {FloatCell(3), FloatCell(-84)}
      [] t = TYPE_BOOL -> {BoolCell(TRUE), BoolCell(FALSE)}
      [] t = TYPE_STRING -> {StrRef(S_on), StrRef(S_long)}
      [] OTHER -> {NULL}

(***************************************************************************)
(* The state machine.                                                      *)
(***************************************************************************)
NoPayload == Payload(FALSE, FALSE, JNone)

Op(name, payload, i, v, log) ==
    [op |-> name, payload |-> payload, i |-> i, v |-> v, log |-> log]

Machine == [ts |-> twinState, log |-> <<>>, halt |-> halt]

\* a position of main: the function it is in and the index of its next call
Pc(at, k) == [at |-> at, k |-> k]

ExitCode_Success == "ExitCode_Success"
ExitCode_TermHandler_SigTerm == "ExitCode_TermHandler_SigTerm"
ExitCode_Main_EventLoopFail == "ExitCode_Main_EventLoopFail"
ExitCode_Missing_ID_Scope == "ExitCode_Missing_ID_Scope"
ExitCode_ConsumeEventLoopTimeEvent == "ExitCode_ConsumeEventLoopTimeEvent"

\* struct timespec {tv_sec, tv_nsec}
Timespec(sec, nsec) == <<sec, nsec>>
Disarmed == Timespec(0, 0)

led2BlinkPeriod == Timespec(0, 300 * 1000 * 1000)

led1BlinkIntervals ==
    <<Timespec(0, 125000000), Timespec(0, 250000000), Timespec(0, 500000000),
      Timespec(0, 750000000), Timespec(1, 0)>>
led1BlinkIntervalsCount == Len(led1BlinkIntervals)

\* the LP_TIMER declarations: timer name, .period and .handler
TimerDecls ==
    {[name |-> "led1BlinkTimer", period |-> Timespec(0, 125000000),
      handler |-> "Led1BlinkHandler"],
     [name |-> "led2BlinkOffOneShotTimer", period |-> Timespec(0, 0),
      handler |-> "Led2OffHandler"],
     [name |-> "buttonPressCheckTimer", period |-> Timespec(0, 1000000),
      handler |-> "ButtonPressCheckHandler"],
     [name |-> "networkConnectionStatusTimer", period |-> Timespec(5, 0),
      handler |-> "NetworkConnectionStatusHandler"],
     [name |-> "measureSensorTimer", period |-> Timespec(10, 0),
      handler |-> "MeasureSensorHandler"]}
TimerNames == {d.name : d \in TimerDecls}
DeclOf(t) == CHOOSE d \in TimerDecls : d.name = t
TimerOf(h) == (CHOOSE d \in TimerDecls : d.handler = h).name

\* the output peripherals, each with .initialState = GPIO_Value_Low
Outputs == {"led1", "led2", "networkConnectedLed"}

\* the statics of the main of part_000 as the program starts
TimersIdle ==
    /\ led1BlinkIntervalIndex = 2
    /\ timers = [t \in TimerNames |-> DeclOf(t).period]
    /\ gpio = [p \in Outputs |-> FALSE]
    /\ led_state = FALSE
    /\ msgId = 0

\* no main runs: a caller uses the operations of the synchronizer directly
MainIdle ==
    /\ TimersIdle
    /\ app = "none"
    /\ scopeId = <<>>
    /\ pc = Pc("none", 0)
    /\ terminationRequired = FALSE
    /\ exitCode = ExitCode_Success
    /\ returned = "none"
    /\ running = {}
    /\ calls = <<>>

Init ==
    /\ MainIdle
    /\ deviceTwinSet \in BindingSets
    /\ twinState = [i \in 1..Len(deviceTwinSet) |-> NULL]
    /\ deviceTwinCount = 0
    /\ halt = "run"
    /\ last = Op("init", NoPayload, 0, NULL, <<>>)

\* OpenDeviceTwinSet(deviceTwins, NELEMS(deviceTwins)), called while no
\* binding holds storage; heap[i] is what malloc returns for binding i
OpenDeviceTwinSet ==
    /\ halt = "run"
    /\ \A i \in 1..Len(deviceTwinSet) : twinState[i] = NULL
    /\ \E heap \in [1..Len(deviceTwinSet) -> -1..MaxGarbage] :
         LET st == OpenFrom(Machine, 1, Len(deviceTwinSet), heap)
         IN  /\ twinState' = st.ts
             /\ halt' = st.halt
             /\ last' = Op("OpenDeviceTwinSet", NoPayload, 0, NULL, st.log)
    /\ deviceTwinCount' = Len(deviceTwinSet)
    /\ UNCHANGED <<deviceTwinSet, mainVars>>

CloseDeviceTwinSet ==
    /\ halt = "run"
    /\ LET st == CloseFrom(Machine, 1, deviceTwinCount)
       IN  /\ twinState' = st.ts
           /\ last' = Op("CloseDeviceTwinSet", NoPayload, 0, NULL, st.log)
    /\ UNCHANGED <<deviceTwinSet, deviceTwinCount, halt, mainVars>>

\* the twin-update notification delivers a payload
Dispatch ==
    /\ halt = "run"
    /\ \E payload \in Payloads :
       \E nets \in [1..Len(deviceTwinSet) -> Net] :
         LET st == TwinCallback(Machine, payload, deviceTwinCount, nets)
         IN  /\ twinState' = st.ts
             /\ halt' = st.halt
             /\ last' = Op("TwinCallback", payload, 0, NULL, st.log)
    /\ UNCHANGED <<deviceTwinSet, deviceTwinCount, mainVars>>

\* the application publishes a value of its own for binding i (0: NULL)
Publish ==
    /\ halt = "run"
    /\ \E i \in 0..Len(deviceTwinSet) :
       \E v \in (IF i = 0 THEN {NULL} ELSE StateValues(deviceTwinSet[i].twinType)) :
       \E net \in Net :
         LET st == DeviceTwinReportState(Machine, i, v, net)
         IN  /\ twinState' = st.ts
             /\ halt' = st.halt
             /\ last' = Op("DeviceTwinReportState", NoPayload, i, v, st.log)
    /\ UNCHANGED <<deviceTwinSet, deviceTwinCount, mainVars>>

Next ==
    \/ OpenDeviceTwinSet
    \/ CloseDeviceTwinSet
    \/ Dispatch
    \/ Publish

Spec == Init /\ [][Next]_vars

(***************************************************************************)
(* The main programs.  APP_TWIN is samples/zdemo_hello_world_avnet/main.c  *)
(* (device twins and cloud-to-device messages, no timer of its own),       *)
(* APP_TIMERS the main of src/unnamed/part_000 (five timers, no twins).    *)
(* The lp_ library is outside this repository's sources: each call is      *)
(* taken by its name to open or close the thing it names, handlers run     *)
(* only inside EventLoop_Run (spec 5), and lp_terminate records the exit   *)
(* code and raises the termination flag the loop tests.                    *)
(***************************************************************************)
APP_TWIN == "zdemo_hello_world_avnet"
APP_TIMERS == "part_000"
Apps == {APP_TWIN, APP_TIMERS}

\* a scope id given in the app_manifest CmdArgs
S_scope == <<"0", "n", "e">>

\* main.c tests strlen(scopeId) before it initializes; the other main reads no
\* command line, so its scopeId stays empty
ChecksScopeId(a) == a = APP_TWIN
ScopeIds(a) == IF a = APP_TWIN THEN {<<>>, S_scope} ELSE {<<>>}

\* deviceTwinBindingSet: empty as main.c has it, and with the bindings the
\* sample is there to receive
MainBindingSets(a) ==
    IF a = APP_TWIN
    THEN {<<>>, <<Binding(N_temp, TYPE_INT, TRUE), Binding(N_led, TYPE_STRING, TRUE)>>}
    ELSE {<<>>}

\* timerSet
Timers(a) ==
    IF a = APP_TIMERS
    THEN {"Led1BlinkHandler", "Led2OffHandler", "ButtonPressCheckHandler",
          "NetworkConnectionStatusHandler", "MeasureSensorHandler"}
    ELSE {}

\* the twin documents that arrive while main runs
MainPayloads ==
    {Payload(TRUE, FALSE, JNone),
     Payload(TRUE, TRUE, Wrap(Tree(ValueObj(JNum(84)), JNone))),
     Payload(TRUE, TRUE, Tree(JNone, ValueObj(JStr(S_on))))}

InitSequence(a) ==
    IF a = APP_TWIN
    THEN <<"lp_initializeDevKit", "lp_openPeripheralGpioSet", "lp_openDeviceTwinSet",
           "lp_startTimerSet", "lp_startCloudToDevice">>
    ELSE <<"lp_initializeDevKit", "lp_openPeripheralGpioSet", "lp_startTimerSet">>

\* a close sequence that releases the binding storage first
CloseSequence_TwinSetFirst(a) ==
    IF a = APP_TWIN
    THEN <<"lp_closeDeviceTwinSet", "lp_stopTimerSet", "lp_stopCloudToDevice",
           "lp_closePeripheralGpioSet", "lp_closeDevKit", "lp_stopTimerEventLoop">>
    ELSE <<"lp_stopTimerSet", "lp_closePeripheralGpioSet", "lp_closeDevKit",
           "lp_stopTimerEventLoop">>

CloseSequence(a) ==
    IF a = APP_TWIN
    THEN <<"lp_stopTimerSet", "lp_stopCloudToDevice", "lp_closePeripheralGpioSet",
           "lp_closeDeviceTwinSet", "lp_closeDevKit", "lp_stopTimerEventLoop">>
    ELSE <<"lp_stopTimerSet", "lp_closePeripheralGpioSet", "lp_closeDevKit",
           "lp_stopTimerEventLoop">>

\* what a call opens or starts, and what a call closes or stops
Acquired(call) ==
    CASE call = "lp_initializeDevKit" -> {"DevKit"}
      [] call = "lp_openPeripheralGpioSet" -> {"PeripheralGpioSet"}
      [] call = "lp_openDeviceTwinSet" -> {"DeviceTwinSet"}
      [] call = "lp_startTimerSet" -> {"TimerSet"}
      [] call = "lp_startCloudToDevice" -> {"CloudToDevice"}
      [] call = "lp_getTimerEventLoop" -> {"TimerEventLoop"}
      [] OTHER -> {}

Released(call) ==
    CASE call = "lp_stopTimerSet" -> {"TimerSet"}
      [] call = "lp_stopCloudToDevice" -> {"CloudToDevice"}
      [] call = "lp_closePeripheralGpioSet" -> {"PeripheralGpioSet"}
      [] call = "lp_closeDeviceTwinSet" -> {"DeviceTwinSet"}
      [] call = "lp_closeDevKit" -> {"DevKit"}
      [] call = "lp_stopTimerEventLoop" -> {"TimerEventLoop"}
      [] OTHER -> {}

\* the returns of EventLoop_Run and the handlers it ran, as calls records them
EV_TWIN == "TwinCallback"
EV_EINTR == "EventLoop_Run: -1, EINTR"
EV_FAIL == "EventLoop_Run: -1, other errno"
LoopEvents == {EV_TWIN, EV_EINTR, EV_FAIL} \cup Timers(APP_TIMERS)

\* the number of times EventLoop_Run has returned
Loops == Cardinality({k \in 1..Len(calls) : calls[k] \in LoopEvents})

\* lp_terminate(code)
lp_terminate(code) ==
    /\ terminationRequired' = TRUE
    /\ exitCode' = code

MainInit ==
    /\ app \in Apps
    /\ scopeId \in ScopeIds(app)
    /\ deviceTwinSet \in MainBindingSets(app)
    /\ twinState = [i \in 1..Len(deviceTwinSet) |-> NULL]
    /\ deviceTwinCount = 0
    /\ halt = "run"
    /\ last = Op("init", NoPayload, 0, NULL, <<>>)
    /\ pc = Pc("main", 0)
    /\ terminationRequired = FALSE
    /\ exitCode = ExitCode_Success
    /\ returned = "none"
    /\ running = {}
    /\ calls = <<>>
    /\ TimersIdle

twinVars == <<deviceTwinSet, twinState, deviceTwinCount, halt, last>>

\* main up to the call of InitPeripheralsAndHandlers
CheckScopeId ==
    /\ UNCHANGED timerVars
    /\ halt = "run" /\ pc = Pc("main", 0)
    /\ IF ChecksScopeId(app) /\ Len(scopeId) = 0
       THEN returned' = ExitCode_Missing_ID_Scope /\ pc' = Pc("returned", 0)
       ELSE returned' = returned /\ pc' = Pc("init", 1)
    /\ UNCHANGED <<twinVars, app, scopeId, terminationRequired, exitCode, running, calls>>

\* InitPeripheralsAndHandlers, one call at a time
InitPeripheralsAndHandlers ==
    /\ UNCHANGED timerVars
    /\ halt = "run" /\ pc.at = "init"
    /\ LET call == InitSequence(app)[pc.k]
       IN  /\ calls' = Append(calls, call)
           /\ running' = running \cup Acquired(call)
           /\ IF call = "lp_openDeviceTwinSet"
              THEN \E heap \in [1..Len(deviceTwinSet) -> -1..MaxGarbage] :
                     LET st == OpenFrom(Machine, 1, Len(deviceTwinSet), heap)
                     IN  /\ twinState' = st.ts
                         /\ halt' = st.halt
                         /\ last' = Op("OpenDeviceTwinSet", NoPayload, 0, NULL, st.log)
                         /\ deviceTwinCount' = Len(deviceTwinSet)
                         /\ UNCHANGED deviceTwinSet
              ELSE UNCHANGED twinVars
    /\ pc' = IF pc.k = Len(InitSequence(app)) THEN Pc("loop", 0) ELSE Pc("init", pc.k + 1)
    /\ UNCHANGED <<app, scopeId, terminationRequired, exitCode, returned>>

\* while (!lp_isTerminationRequired()), and lp_getTimerEventLoop() for the run
LoopTest ==
    /\ UNCHANGED timerVars
    /\ halt = "run" /\ pc.at = "loop"
    /\ IF terminationRequired
       THEN pc' = Pc("close", 1) /\ running' = running
       ELSE pc' = Pc("run", 0) /\ running' = running \cup Acquired("lp_getTimerEventLoop")
    /\ UNCHANGED <<twinVars, app, scopeId, terminationRequired, exitCode, returned, calls>>

\* the timer statics and the termination state a handler works on, and the
\* calls it makes, in order
TimerMachine ==
    [index |-> led1BlinkIntervalIndex, timers |-> timers, gpio |-> gpio,
     led_state |-> led_state, msgId |-> msgId,
     terminationRequired |-> terminationRequired, exitCode |-> exitCode, log |-> <<>>]

\* a call of the library on a peripheral or a timer, with what it returned
Call(st, call, target, i, ok) ==
    [st EXCEPT !.log = Append(@, Ev(call, i, NULL, <<target>>, ok))]

lp_gpioOn(st, p) == Call([st EXCEPT !.gpio[p] = TRUE], "lp_gpioOn", p, 0, TRUE)
lp_gpioOff(st, p) == Call([st EXCEPT !.gpio[p] = FALSE], "lp_gpioOff", p, 0, TRUE)
lp_setOneShotTimer(st, t, period) ==
    Call([st EXCEPT !.timers[t] = period], "lp_setOneShotTimer", t, 0, TRUE)
lp_changeTimer(st, t, period) ==
    Call([st EXCEPT !.timers[t] = period], "lp_changeTimer", t, 0, TRUE)

\* lp_terminate(code) inside a handler
Terminated(st, code) ==
    Call([st EXCEPT !.terminationRequired = TRUE, !.exitCode = code],
         "lp_terminate", code, 0, TRUE)

\* if (ConsumeEventLoopTimerEvent(eventLoopTimer) != 0) { lp_terminate(..); return; }
Consume(st, t, consumed) == Call(st, "ConsumeEventLoopTimerEvent", t, 0, consumed)
ConsumeFailed(st) == Terminated(st, ExitCode_ConsumeEventLoopTimeEvent)

NetworkConnectionStatusHandler(st, consumed, ready) ==
    LET c == Consume(st, "networkConnectionStatusTimer", consumed)
        n == Call(c, "lp_isNetworkReady", "network", 0, ready)
    IN  IF ~consumed THEN ConsumeFailed(c)
        ELSE IF ready THEN lp_gpioOn(n, "networkConnectedLed")
        ELSE lp_gpioOff(n, "networkConnectedLed")

\* a Led2On that leaves the one-shot timer as it is
Led2On_NoTimer(st) == lp_gpioOn(st, "led2")

Led2On(st) ==
    lp_setOneShotTimer(lp_gpioOn(st, "led2"), "led2BlinkOffOneShotTimer", led2BlinkPeriod)

Led2OffHandler(st, consumed) ==
    LET c == Consume(st, "led2BlinkOffOneShotTimer", consumed)
    IN  IF ~consumed THEN ConsumeFailed(c) ELSE lp_gpioOff(c, "led2")

\* read: lp_readTelemetry(&environment); formatted: snprintf(..) > 0.  msgId++
\* is an argument of snprintf: it counts every message attempted
MeasureSensorHandler(st, consumed, read, formatted) ==
    LET c == Consume(st, "measureSensorTimer", consumed)
        r == Call(c, "lp_readTelemetry", "environment", 0, read)
        f == Call([r EXCEPT !.msgId = @ + 1], "snprintf", "msgBuffer", r.msgId, formatted)
    IN  IF ~consumed THEN ConsumeFailed(c)
        ELSE IF ~read THEN r
        ELSE IF ~formatted THEN f
        ELSE Led2On(f)

\* a handler that sets the timer before it advances the index
ButtonPressCheckHandler_StaleInterval(st, consumed, a, b) ==
    LET c == Consume(st, "buttonPressCheckTimer", consumed)
        ga == Call(c, "lp_gpioGetState", "buttonA", 0, a)
        gb == IF a THEN ga ELSE Call(ga, "lp_gpioGetState", "buttonB", 0, b)
        index == (st.index + 1) % led1BlinkIntervalsCount
    IN  IF ~consumed THEN ConsumeFailed(c)
        ELSE IF a \/ b
        THEN lp_changeTimer([gb EXCEPT !.index = index], "led1BlinkTimer",
                            led1BlinkIntervals[st.index + 1])
        ELSE gb

\* a: lp_gpioGetState(&buttonA, ..), and b: lp_gpioGetState(&buttonB, ..), which
\* is not called when a holds
ButtonPressCheckHandler(st, consumed, a, b) ==
    LET c == Consume(st, "buttonPressCheckTimer", consumed)
        ga == Call(c, "lp_gpioGetState", "buttonA", 0, a)
        gb == IF a THEN ga ELSE Call(ga, "lp_gpioGetState", "buttonB", 0, b)
        index == (st.index + 1) % led1BlinkIntervalsCount
    IN  IF ~consumed THEN ConsumeFailed(c)
        ELSE IF a \/ b
        THEN lp_changeTimer([gb EXCEPT !.index = index], "led1BlinkTimer",
                            led1BlinkIntervals[index + 1])
        ELSE gb

Led1BlinkHandler(st, consumed) ==
    LET c == Consume(st, "led1BlinkTimer", consumed)
        t == [c EXCEPT !.led_state = ~ @]
    IN  IF ~consumed THEN ConsumeFailed(c)
        ELSE IF t.led_state THEN lp_gpioOff(t, "led1")
        ELSE lp_gpioOn(t, "led1")

\* what a handler reads from outside: whether its event could be consumed, and
\* the two answers it asks the library for
HandlerInputs(h) ==
    CASE h \in {"Led1BlinkHandler", "Led2OffHandler"} ->
           [consumed : BOOLEAN, x : {FALSE}, y : {FALSE}]
      [] h = "NetworkConnectionStatusHandler" ->
           [consumed : BOOLEAN, x : BOOLEAN, y : {FALSE}]
      [] OTHER -> [consumed : BOOLEAN, x : BOOLEAN, y : BOOLEAN]

RunHandler(st, h, in) ==
    CASE h = "Led1BlinkHandler" -> Led1BlinkHandler(st, in.consumed)
      [] h = "Led2OffHandler" -> Led2OffHandler(st, in.consumed)
      [] h = "ButtonPressCheckHandler" -> ButtonPressCheckHandler(st, in.consumed, in.x, in.y)
      [] h = "NetworkConnectionStatusHandler" ->
           NetworkConnectionStatusHandler(st, in.consumed, in.x)
      [] h = "MeasureSensorHandler" -> MeasureSensorHandler(st, in.consumed, in.x, in.y)

\* a one-shot timer (declared with the period {0, 0}) is disarmed once it fired
Expire(st, t) ==
    IF DeclOf(t).period = Disarmed THEN [st EXCEPT !.timers[t] = Disarmed] ELSE st

\* EventLoop_Run runs the handler of a timer that is set and has expired, and
\* returns; a handler that cannot consume its event calls lp_terminate and returns
Handle(h) ==
    /\ halt = "run" /\ pc.at = "run"
    /\ "TimerSet" \in running
    /\ h \in Timers(app)
    /\ timers[TimerOf(h)] # Disarmed
    /\ \E in \in HandlerInputs(h) :
         /\ (h = "MeasureSensorHandler" /\ in.consumed /\ in.x) => msgId < MaxMsgId
         /\ LET st == RunHandler(Expire(TimerMachine, TimerOf(h)), h, in)
            IN  /\ led1BlinkIntervalIndex' = st.index
                /\ timers' = st.timers
                /\ gpio' = st.gpio
                /\ led_state' = st.led_state
                /\ msgId' = st.msgId
                /\ terminationRequired' = st.terminationRequired
                /\ exitCode' = st.exitCode
                /\ last' = Op(h, NoPayload, 0, NULL, st.log)
    /\ pc' = Pc("loop", 0)
    /\ UNCHANGED <<deviceTwinSet, twinState, deviceTwinCount, halt, app, scopeId, returned,
                   running>>

\* a timer event among the events main's record of calls keeps
TimerEvent ==
    /\ Loops < MaxLoops
    /\ \E h \in Timers(app) : Handle(h) /\ calls' = Append(calls, h)

\* EventLoop_Run returns after a twin update was delivered to TwinCallback
TwinEvent ==
    /\ UNCHANGED timerVars
    /\ halt = "run" /\ pc.at = "run" /\ Loops < MaxLoops
    /\ "CloudToDevice" \in running
    /\ \E payload \in MainPayloads :
       \E nets \in [1..Len(deviceTwinSet) -> Net] :
         LET st == TwinCallback(Machine, payload, deviceTwinCount, nets)
         IN  /\ twinState' = st.ts
             /\ halt' = st.halt
             /\ last' = Op("TwinCallback", payload, 0, NULL, st.log)
    /\ calls' = Append(calls, EV_TWIN)
    /\ pc' = Pc("loop", 0)
    /\ UNCHANGED <<deviceTwinSet, deviceTwinCount, app, scopeId, terminationRequired,
                   exitCode, returned, running>>

\* a main that treats the interruption by a signal as a failure of the loop
Interrupted_Terminates ==
    /\ UNCHANGED timerVars
    /\ halt = "run" /\ pc.at = "run"
    /\ \E sigterm \in BOOLEAN :
         /\ sigterm \/ Loops < MaxLoops
         /\ IF sigterm THEN lp_terminate(ExitCode_TermHandler_SigTerm)
            ELSE lp_terminate(ExitCode_Main_EventLoopFail)
    /\ calls' = Append(calls, EV_EINTR)
    /\ pc' = Pc("loop", 0)
    /\ UNCHANGED <<twinVars, app, scopeId, returned, running>>

\* EventLoop_Run returns -1 with errno EINTR: a signal arrived, SIGTERM (whose
\* handler requests termination) or another one
Interrupted ==
    /\ UNCHANGED timerVars
    /\ halt = "run" /\ pc.at = "run"
    /\ \E sigterm \in BOOLEAN :
         /\ sigterm \/ Loops < MaxLoops
         /\ IF sigterm THEN lp_terminate(ExitCode_TermHandler_SigTerm)
            ELSE UNCHANGED <<terminationRequired, exitCode>>
    /\ calls' = Append(calls, EV_EINTR)
    /\ pc' = Pc("loop", 0)
    /\ UNCHANGED <<twinVars, app, scopeId, returned, running>>

\* EventLoop_Run returns -1 with another errno: lp_terminate(ExitCode_Main_EventLoopFail)
EventLoopFail ==
    /\ UNCHANGED timerVars
    /\ halt = "run" /\ pc.at = "run" /\ Loops < MaxLoops
    /\ lp_terminate(ExitCode_Main_EventLoopFail)
    /\ calls' = Append(calls, EV_FAIL)
    /\ pc' = Pc("loop", 0)
    /\ UNCHANGED <<twinVars, app, scopeId, returned, running>>

\* SIGTERM while main is not waiting in EventLoop_Run
SigTerm ==
    /\ UNCHANGED timerVars
    /\ halt = "run" /\ pc.at \in {"init", "loop", "close", "exit"}
    /\ exitCode # ExitCode_TermHandler_SigTerm
    /\ lp_terminate(ExitCode_TermHandler_SigTerm)
    /\ UNCHANGED <<twinVars, app, scopeId, pc, returned, running, calls>>

\* ClosePeripheralsAndHandlers, one call at a time
ClosePeripheralsAndHandlers ==
    /\ UNCHANGED timerVars
    /\ halt = "run" /\ pc.at = "close"
    /\ LET call == CloseSequence(app)[pc.k]
       IN  /\ calls' = Append(calls, call)
           /\ running' = running \ Released(call)
           /\ IF call = "lp_closeDeviceTwinSet"
              THEN LET st == CloseFrom(Machine, 1, deviceTwinCount)
                   IN  /\ twinState' = st.ts
                       /\ last' = Op("CloseDeviceTwinSet", NoPayload, 0, NULL, st.log)
                       /\ UNCHANGED <<deviceTwinSet, deviceTwinCount, halt>>
              ELSE UNCHANGED twinVars
    /\ pc' = IF pc.k = Len(CloseSequence(app)) THEN Pc("exit", 0) ELSE Pc("close", pc.k + 1)
    /\ UNCHANGED <<app, scopeId, terminationRequired, exitCode, returned>>

\* return lp_getTerminationExitCode()
ReturnExitCode ==
    /\ UNCHANGED timerVars
    /\ halt = "run" /\ pc.at = "exit"
    /\ returned' = exitCode
    /\ pc' = Pc("returned", 0)
    /\ UNCHANGED <<twinVars, app, scopeId, terminationRequired, exitCode, running, calls>>

MainNext ==
    \/ CheckScopeId
    \/ InitPeripheralsAndHandlers
    \/ LoopTest
    \/ TimerEvent
    \/ TwinEvent
    \/ Interrupted
    \/ EventLoopFail
    \/ SigTerm
    \/ ClosePeripheralsAndHandlers
    \/ ReturnExitCode

MainSpec == MainInit /\ [][MainNext]_vars

(***************************************************************************)
(* The main of part_000 and its timers for as long as it runs: the events  *)
(* of the timers are not counted, and not kept in calls.                   *)
(***************************************************************************)
TimerInit == MainInit /\ app = APP_TIMERS

\* EventLoop_Run returns after the handler of timer event h ran
Deliver(h) == Handle(h) /\ UNCHANGED calls

TimerNext ==
    \/ CheckScopeId
    \/ InitPeripheralsAndHandlers
    \/ LoopTest
    \/ \E h \in Timers(APP_TIMERS) : Deliver(h)
    \/ Interrupted
    \/ EventLoopFail
    \/ SigTerm
    \/ ClosePeripheralsAndHandlers
    \/ ReturnExitCode

TimerSpec == TimerInit /\ [][TimerNext]_vars

\* main takes its own steps: it initializes, goes round its loop, closes and
\* returns; and the event loop delivers the event of the one-shot timer once it
\* is set, however many other timer events there are.  Signals, failures of the
\* event loop and the events of the other timers may or may not come
FairTimerSpec ==
    /\ TimerSpec
    /\ WF_vars(CheckScopeId)
    /\ WF_vars(InitPeripheralsAndHandlers)
    /\ WF_vars(LoopTest)
    /\ WF_vars(ClosePeripheralsAndHandlers)
    /\ WF_vars(ReturnExitCode)
    /\ SF_vars(Deliver("Led2OffHandler"))

(***************************************************************************)
(* Vocabulary of the properties below.                                     *)
(***************************************************************************)
Log == last.log
Bindings == 1..Len(deviceTwinSet)
ScalarTypes == {TYPE_INT, TYPE_FLOAT, TYPE_BOOL}
TypeOf(i) == deviceTwinSet[i].twinType
NameOf(i) == deviceTwinSet[i].twinProperty

\* positions of the effects e of binding i in the last operation
At(e, i) == {k \in 1..Len(Log) : Log[k].e = e /\ Log[k].i = i}
Count(e, i) == Cardinality(At(e, i))
\* the number of effects e of the last operation, whatever the binding
Total(e) == Cardinality({k \in 1..Len(Log) : Log[k].e = e})
Dispatched == last.op = "TwinCallback"
Published == last.op = "DeviceTwinReportState"

\* binding i is registered: OpenDeviceTwinSet has recorded the set
Registered(i) == i <= deviceTwinCount

\* the last operation got to binding i and past it without a NULL dereference,
\* that is, every binding it wrote through up to i held storage
Sound(i) == \A k \in 1..Len(Log) : Log[k].e = "fault" => Log[k].i > i

\* the desired tree of a document (spec 4.2 step 3), the nested object of
\* binding i in it (step 4) and its value field (step 5)
DesiredTreeOf(payload) ==
    IF json_object_get_value(payload.root, K_desired).t = "obj"
    THEN json_object_get_value(payload.root, K_desired)
    ELSE payload.root
EntryOf(payload, i) == json_object_dotget_object(DesiredTreeOf(payload), NameOf(i))
ValueOf(payload, i) == json_object_get_value(EntryOf(payload, i), K_value)

\* the JSON type a binding type expects (spec 4.2 step 5)
JsonTypeFor(t) ==
    CASE t \in {TYPE_INT, TYPE_FLOAT} -> "num"
      [] t = TYPE_BOOL -> "bool"
      [] t = TYPE_STRING -> "str"
      [] OTHER -> "no type"

\* the document reaches the parser and offers binding i a value of its type
Delivered(payload) == payload.alloc /\ payload.parsed /\ payload.root.t = "obj"
Offers(payload, i) ==
    Delivered(payload) /\ ValueOf(payload, i).t = JsonTypeFor(TypeOf(i))

\* the cell c holds exactly the JSON value jv
HoldsExactly(c, jv) ==
    \/ c.t = "int" /\ jv.t = "num" /\ 2 * c.n = jv.n
    \/ c.t = "float" /\ jv.t = "num" /\ c.n = jv.n
    \/ c.t = "bool" /\ jv.t = "bool" /\ c.b = jv.b
    \/ c.t = "str" /\ jv.t = "str" /\ c.s = jv.s

\* the cell c holds the JSON value jv narrowed to the binding type t:
\* int keeps the integer part (toward zero), float the nearest float
\* (exact up to 2^24, else within 2^-24 of the value), bool and string the value
HoldsNarrowed(t, c, jv) ==
    CASE t = TYPE_INT ->
           /\ c.t = "int"
           /\ 2 * Abs(c.n) <= Abs(jv.n) /\ Abs(jv.n) < 2 * Abs(c.n) + 2
           /\ (c.n # 0 => (c.n > 0 <=> jv.n > 0))
      [] t = TYPE_FLOAT ->
           /\ c.t = "float"
           /\ IF Abs(jv.n) <= 16777216 THEN c.n = jv.n
              ELSE Abs(c.n - jv.n) * 16777216 <= Abs(jv.n)
      [] t = TYPE_BOOL -> c.t = "bool" /\ c.b = jv.b
      [] OTHER -> c.t = "str" /\ c.s = jv.s

\* {"<property_name>":<value of c as the type prints it>}, as much of it as
\* the report buffer holds
FragmentOf(i, c) == Snprintf(Fragment(NameOf(i), ValueText(TypeOf(i), c))).buf

\* {"temp":42}
Frag_temp_42 == <<"{", "\"", "t", "e", "m", "p", "\"", ":", "4", "2", "}">>
\* {"desired":{"temp":{"value":42}}}
Doc_temp_42 == Payload(TRUE, TRUE, Wrap(Tree(ValueObj(JNum(84)), JNone)))

(***************************************************************************)
(* C1.  As claimed: for every registered binding of type int32, float32 or *)
(* bool and every document whose desired tree offers it a value of the     *)
(* matching JSON type, one dispatch leaves the local value equal to the    *)
(* document's value, invokes the handler exactly once and produces the     *)
(* fragment {"<property_name>":<value>}.  Read in the claim's favour: the  *)
(* binding holds storage and the payload reaches the parser.               *)
(***************************************************************************)
C1_AsClaimed ==
    \A i \in Bindings :
        (Dispatched /\ Registered(i) /\ Sound(i) /\ TypeOf(i) \in ScalarTypes
            /\ Offers(last.payload, i))
        => /\ HoldsExactly(twinState[i], ValueOf(last.payload, i))
           /\ Count("handler", i) = 1
           /\ \E k \in At("send", i) : Log[k].frag = FragmentOf(i, twinState[i])

(***************************************************************************)
(* C1, amended.  For every registered binding of type int32, float32 or    *)
(* bool that holds storage and every delivered document offering it a      *)
(* value of the matching JSON type, one dispatch stores the value narrowed *)
(* to the binding's type exactly once, invokes the handler once if one is  *)
(* registered (it sees the stored value) and not at all otherwise, calls   *)
(* the publish once, and the publish submits exactly one fragment          *)
(* {"<property_name>":<local value as printed>} if the transport is        *)
(* connected and none if it is not.  {"desired":{"temp":{"value":42}}} on  *)
(* the int32 binding temp gives 42 and {"temp":42}.                        *)
(***************************************************************************)
C1_DispatchUpdatesBinding ==
    \A i \in Bindings :
        (Dispatched /\ Registered(i) /\ Sound(i) /\ TypeOf(i) \in ScalarTypes
            /\ Offers(last.payload, i))
        => /\ HoldsNarrowed(TypeOf(i), twinState[i], ValueOf(last.payload, i))
           /\ Count("store", i) = 1
           /\ Count("handler", i) = (IF deviceTwinSet[i].handler THEN 1 ELSE 0)
           /\ \A k \in At("handler", i) : Log[k].val = twinState[i]
           /\ Count("connect", i) = 1
           /\ \A k \in At("connect", i) :
                  IF Log[k].ok
                  THEN /\ Count("send", i) = 1
                       /\ \A m \in At("send", i) :
                              Log[m].frag = FragmentOf(i, twinState[i])
                  ELSE Count("send", i) = 0
           /\ (TypeOf(i) = TYPE_INT /\ NameOf(i) = N_temp /\ last.payload = Doc_temp_42)
              => /\ twinState[i] = IntCell(42)
                 /\ \A m \in At("send", i) : Log[m].frag = Frag_temp_42

\* the example of the claim has happened: 42 stored, handler run, {"temp":42} sent
C1_Witness ==
    /\ Dispatched /\ last.payload = Doc_temp_42
    /\ Len(deviceTwinSet) > 0 /\ TypeOf(1) = TYPE_INT /\ NameOf(1) = N_temp
    /\ twinState[1] = IntCell(42)
    /\ Count("handler", 1) = 1
    /\ \E m \in At("send", 1) : Log[m].frag = Frag_temp_42 /\ Log[m].ok

(***************************************************************************)
(* C2.  As claimed: in every dispatch the number of submissions to the     *)
(* transport equals the number of accepted changes (values stored).        *)
(***************************************************************************)
C2_AsClaimed == Dispatched => Total("send") = Total("store")

(***************************************************************************)
(* C2, amended.  In every dispatch each binding is stored at most once,    *)
(* exactly when it is registered, holds storage and is offered a value of  *)
(* its type; every store is followed in the same dispatch by exactly one   *)
(* publish call for that binding, and the publish submits once if          *)
(* ConnectToAzureIot succeeds and not at all if it fails: the submissions  *)
(* number the accepted changes made while the transport is connected.      *)
(***************************************************************************)
C2_OnePublishPerAcceptedChange ==
    /\ Dispatched
       => Total("send")
            = Cardinality({k \in 1..Len(Log) : Log[k].e = "connect" /\ Log[k].ok})
    /\ \A i \in Bindings :
        Dispatched
        => /\ Count("store", i)
                = (IF Registered(i) /\ Sound(i) /\ Offers(last.payload, i) THEN 1 ELSE 0)
           /\ Count("connect", i) = Count("store", i)
           /\ Count("send", i) = Cardinality({k \in At("connect", i) : Log[k].ok})
           /\ \A k \in At("store", i) : \E c \in At("connect", i) : k < c
           /\ \A m \in At("send", i) : \E c \in At("connect", i) : c < m /\ Log[c].ok

\* an accepted change was published, and another was not for want of a connection
C2_Witness ==
    /\ Dispatched /\ Len(deviceTwinSet) > 1
    /\ Count("store", 1) = 1 /\ Count("send", 1) = 1
    /\ Count("store", 2) = 1 /\ Count("send", 2) = 0

(***************************************************************************)
(* C3.  A dispatch whose document gives a bound property a value field of  *)
(* a JSON type other than the binding's leaves that binding's local value  *)
(* unchanged, does not invoke its handler and submits no publish for it.   *)
(***************************************************************************)
Mismatched(payload, i) ==
    /\ Delivered(payload)
    /\ ValueOf(payload, i).t \notin {"none", JsonTypeFor(TypeOf(i))}

C3_MismatchLeavesBinding ==
    [][\A i \in Bindings :
          (Dispatched' /\ Mismatched(last'.payload, i))
          => /\ twinState'[i] = twinState[i]
             /\ \A k \in 1..Len(Log') : Log'[k].i # i]_vars

\* a string was offered to a registered int32 binding holding storage
C3_Witness ==
    /\ Dispatched /\ Len(deviceTwinSet) > 0
    /\ TypeOf(1) = TYPE_INT /\ Registered(1)
    /\ ValueOf(last.payload, 1) = JStr(S_on)
    /\ twinState[1].t = "int"
    /\ Count("handler", 1) = 0 /\ Count("send", 1) = 0

(***************************************************************************)
(* C4.  A dispatch of bytes that do not parse, or of a document whose root *)
(* is no JSON object, updates no binding, invokes no handler, submits no   *)
(* publish and returns normally with the registry unchanged.               *)
(***************************************************************************)
C4_UnusableDocumentIsDropped ==
    [][(Dispatched' /\ ~Delivered(last'.payload))
       => /\ twinState' = twinState
          /\ deviceTwinCount' = deviceTwinCount
          /\ deviceTwinSet' = deviceTwinSet
          /\ halt' = halt
          /\ Log' = <<>>]_vars

\* unparsable bytes were dispatched to an open registry
C4_Witness ==
    /\ Dispatched /\ last.payload = Payload(TRUE, FALSE, JNone)
    /\ deviceTwinCount > 0 /\ twinState[1] # NULL
    /\ halt = "run" /\ Log = <<>>

(***************************************************************************)
(* C5.  As claimed: a document with matching entries for two registered    *)
(* bindings updates both, in index order, and produces two fragments, the  *)
(* first binding's submitted before the second one's value is stored.      *)
(* Read in the claim's favour: both bindings hold storage.                 *)
(***************************************************************************)
BothOffered ==
    /\ Dispatched /\ Len(deviceTwinSet) = 2
    /\ \A i \in Bindings : Registered(i) /\ Sound(i) /\ Offers(last.payload, i)

C5_AsClaimed ==
    BothOffered
    => /\ \A i \in Bindings : Count("store", i) = 1 /\ Count("send", i) = 1
       /\ \A m \in At("send", 1) : \A k \in At("store", 2) : m < k

(***************************************************************************)
(* C5, amended.  A document with matching entries for two registered       *)
(* bindings that hold storage stores both values (narrowed to the type; a  *)
(* string reference is cleared again when its publish has returned),       *)
(* handling the binding of lower index completely, its publish call        *)
(* included, before it stores the other; each binding whose publish finds  *)
(* the transport connected submits one fragment of its own, naming only    *)
(* that binding, and a binding whose publish finds it not connected        *)
(* submits none.                                                           *)
(***************************************************************************)
C5_TwoBindingsInOrder ==
    BothOffered
    => /\ \A i \in Bindings :
            /\ Count("store", i) = 1 /\ Count("connect", i) = 1 /\ Count("ret", i) = 1
            /\ \A k \in At("store", i) :
                   /\ HoldsNarrowed(TypeOf(i), Log[k].val, ValueOf(last.payload, i))
                   /\ twinState[i] = (IF TypeOf(i) = TYPE_STRING THEN NULL ELSE Log[k].val)
                   /\ \A m \in At("send", i) : Log[m].frag = FragmentOf(i, Log[k].val)
            /\ Count("send", i) = Cardinality({k \in At("connect", i) : Log[k].ok})
       /\ \A k \in 1..Len(Log) : \A m \in 1..Len(Log) :
              (Log[k].i = 1 /\ Log[m].i = 2) => k < m

\* both were stored and published, the first fragment before the second store
C5_Witness ==
    /\ BothOffered
    /\ Count("send", 1) = 1 /\ Count("send", 2) = 1
    /\ \E m \in At("send", 1) : \E k \in At("store", 2) :
           m < k /\ Log[m].frag # Log[CHOOSE n \in At("send", 2) : TRUE].frag

(***************************************************************************)
(* C6.  When ConnectToAzureIot returns false, the publish through either   *)
(* variant returns failure and makes no call to the send-reported-state    *)
(* primitive (and writes nothing to the binding on the way).               *)
(***************************************************************************)
C6_NotConnectedNoSubmission ==
    \A k \in 1..Len(Log) :
        (Log[k].e = "connect" /\ ~Log[k].ok)
        => /\ k < Len(Log)
           /\ Log[k + 1] = Ev("ret", Log[k].i, NULL, <<>>, FALSE)
           /\ Count("send", Log[k].i) = 0
           /\ Published => Log = <<Log[k], Log[k + 1]>>

\* the re-report of a dispatch found the transport not connected
C6_Witness ==
    /\ Dispatched
    /\ \E k \in 1..Len(Log) :
           /\ Log[k].e = "connect" /\ ~Log[k].ok
           /\ Count("store", Log[k].i) = 1
           /\ Count("send", Log[k].i) = 0

(***************************************************************************)
(* C7.  As claimed: for a binding of any of the four types and any value v *)
(* after DeviceTwinReportState(binding, &v) local_value holds v and the    *)
(* outgoing fragment is {"<property_name>":<v as the type prints it>}.     *)
(* Read in the claim's favour: the transport is connected and accepts, the *)
(* binding holds storage and the fragment fits the report buffer.          *)
(***************************************************************************)
PublishedTo(i) == Published /\ last.i = i /\ Sound(i)
Fits(i, v) == Len(Fragment(NameOf(i), ValueText(TypeOf(i), v))) < DEVICE_TWIN_REPORT_LEN

C7_AsClaimed ==
    \A i \in Bindings :
        (PublishedTo(i) /\ Count("send", i) = 1 /\ Fits(i, last.v)
            /\ TypeOf(i) \in ScalarTypes \cup {TYPE_STRING})
        => /\ twinState[i] = last.v
           /\ \A m \in At("send", i) :
                  Log[m].frag = Fragment(NameOf(i), ValueText(TypeOf(i), last.v))

(***************************************************************************)
(* C7, amended.  After DeviceTwinReportState(binding, &v) with the         *)
(* transport connected: an int32, float32 or bool binding that holds       *)
(* storage has local_value = v; a string binding has an empty local_value  *)
(* (v is not kept); in both cases exactly one fragment is submitted,       *)
(* {"<property_name>":<v as the type prints it>} cut to the                *)
(* DEVICE_TWIN_REPORT_LEN - 1 characters the buffer holds.  With the       *)
(* transport not connected nothing is written and nothing is submitted.    *)
(***************************************************************************)
C7_PublishRoundTrip ==
    \A i \in Bindings :
        (PublishedTo(i) /\ TypeOf(i) \in ScalarTypes \cup {TYPE_STRING})
        => IF Log[1].ok
           THEN /\ twinState[i] = (IF TypeOf(i) = TYPE_STRING THEN NULL ELSE last.v)
                /\ Count("send", i) = 1
                /\ \A m \in At("send", i) :
                       /\ Log[m].frag = FragmentOf(i, last.v)
                       /\ Fits(i, last.v)
                          => Log[m].frag = Fragment(NameOf(i), ValueText(TypeOf(i), last.v))
                /\ (TypeOf(i) = TYPE_FLOAT /\ last.v = FloatCell(3))
                   => \A m \in At("send", i) :
                          Log[m].frag = <<"{", "\"">> \o NameOf(i)
                              \o <<"\"", ":", "1", ".", "5", "0", "0", "0", "0", "0", "}">>
           ELSE Count("store", i) = 0 /\ Count("clear", i) = 0 /\ Count("send", i) = 0

\* 1.5 was published for a float32 binding: stored, and sent as 1.500000
C7_Witness ==
    /\ Published /\ last.i = 1 /\ TypeOf(1) = TYPE_FLOAT
    /\ last.v = FloatCell(3) /\ twinState[1] = FloatCell(3)
    /\ \E m \in At("send", 1) :
           Log[m].frag = <<"{", "\"", "t", "e", "m", "p", "\"", ":",
                           "1", ".", "5", "0", "0", "0", "0", "0", "}">>

(***************************************************************************)
(* C8.  As claimed: open leaves every int32, float32 or bool binding with  *)
(* non-null storage; close frees that storage exactly once and empties the *)
(* reference.                                                              *)
(***************************************************************************)
Opened == last.op = "OpenDeviceTwinSet"
Closed == last.op = "CloseDeviceTwinSet"

C8_AsClaimed ==
    \A i \in Bindings :
        /\ (Opened /\ halt = "run" /\ TypeOf(i) \in ScalarTypes) => twinState[i] # NULL
        /\ (Closed /\ Registered(i)) => twinState[i] = NULL /\ Count("free", i) <= 1

(***************************************************************************)
(* C8, the part that holds: close frees the storage a registered binding   *)
(* holds exactly once and empties the reference, frees nothing for a       *)
(* binding that holds none, and a second close with no open in between     *)
(* frees nothing.                                                          *)
(***************************************************************************)
C8_CloseFreesOnce ==
    [][Closed'
       => /\ \A i \in Bindings :
                 Registered(i)
                 => /\ twinState'[i] = NULL
                    /\ Count("free", i)' = (IF twinState[i] # NULL THEN 1 ELSE 0)
                    /\ \A k \in At("free", i)' : Log'[k].val = twinState[i]
          /\ Closed => Log' = <<>>]_vars

(***************************************************************************)
(* C9.  Registering a binding of unknown type terminates initialization:   *)
(* OpenDeviceTwin does not return for it, open allocates nothing for the   *)
(* bindings after it, and no dispatch or publish ever runs with such a     *)
(* binding registered (the open that met it is the last operation).        *)
(***************************************************************************)
C9_UnknownTypeTerminates ==
    \A i \in Bindings :
        (TypeOf(i) = TYPE_UNKNOWN /\ Registered(i))
        => /\ halt = "exit"
           /\ Opened
           /\ Log[Len(Log)] = Ev("Terminate", i, NULL, <<>>, FALSE)
           /\ \A j \in Bindings : j > i => Count("malloc", j) = 0 /\ twinState[j] = NULL

\* open met the unknown type at index 1 and never reached the int32 binding
C9_Witness ==
    /\ Len(deviceTwinSet) = 2 /\ deviceTwinCount = 2
    /\ TypeOf(1) = TYPE_UNKNOWN /\ TypeOf(2) = TYPE_INT
    /\ halt = "exit" /\ twinState[2] = NULL

(***************************************************************************)
(* C10.  A string binding never owns storage: its local_value is empty     *)
(* after every operation (open, dispatch, publish, close); it is non-empty *)
(* only inside a dispatch, from the store to the clear that follows the    *)
(* handler and the re-report; open allocates and close frees nothing for   *)
(* it.                                                                     *)
(***************************************************************************)
C10_StringNeverOwnsStorage ==
    \A i \in Bindings :
        TypeOf(i) = TYPE_STRING
        => /\ twinState[i] = NULL
           /\ Count("malloc", i) = 0 /\ Count("free", i) = 0
           /\ Count("store", i) <= 1
           /\ \A k \in At("store", i) :
                  /\ Dispatched /\ Log[k].val.t = "str"
                  /\ \E c \in At("clear", i) :
                         /\ k < c
                         /\ \A m \in 1..Len(Log) : Log[m].i = i => k <= m /\ m <= c
                  /\ \A m \in At("handler", i) : Log[m].val = Log[k].val

\* a string was dispatched: the handler saw it, and the reference is empty again
C10_Witness ==
    /\ Dispatched /\ Len(deviceTwinSet) = 2 /\ TypeOf(2) = TYPE_STRING
    /\ \E m \in At("handler", 2) : Log[m].val = StrRef(S_long)
    /\ Count("send", 2) = 1
    /\ twinState[2] = NULL

(***************************************************************************)
(* C11.  As claimed: the storage open allocates for an int32, float32 or   *)
(* bool binding is zero-initialized: right after open, before any dispatch *)
(* or publish, the local value is 0 / 0.0 / false.                         *)
(***************************************************************************)
C11_AsClaimed ==
    \A i \in Bindings :
        (Opened /\ halt = "run" /\ TypeOf(i) \in ScalarTypes /\ twinState[i] # NULL)
        => twinState[i] \in {IntCell(0), FloatCell(0), BoolCell(FALSE)}

(***************************************************************************)
(* C12.  As claimed: for every binding set and every property tree T,      *)
(* dispatching {"desired": T} and dispatching T give the same local        *)
(* values, the same handler invocations and the same publish fragments     *)
(* (from the same state, with the transport behaving the same).            *)
(***************************************************************************)
SameDispatch(T, nets) ==
    TwinCallback(Machine, Payload(TRUE, TRUE, Wrap(T)), deviceTwinCount, nets)
        = TwinCallback(Machine, Payload(TRUE, TRUE, T), deviceTwinCount, nets)

C12_AsClaimed ==
    halt = "run"
    => \A T \in Trees \cup {T_DesiredInside} :
       \A nets \in [Bindings -> Net] : SameDispatch(T, nets)

(***************************************************************************)
(* C12, amended.  For every binding set and every property tree T that has *)
(* no top-level member "desired" holding an object, dispatching            *)
(* {"desired": T} and dispatching T from the same state give the same      *)
(* local values, the same handler invocations and the same publish         *)
(* fragments, in the same order.                                           *)
(***************************************************************************)
C12_DesiredWrapperIsTransparent ==
    halt = "run"
    => \A T \in Trees :
       \A nets \in [Bindings -> Net] :
           json_object_get_value(T, K_desired).t # "obj" => SameDispatch(T, nets)

\* {"desired":{"temp":{"value":42}}} was dispatched and stored 42, and from this
\* state a dispatch of a string for led is accepted and published
C12_Witness ==
    /\ Dispatched /\ last.payload = Doc_temp_42 /\ halt = "run"
    /\ Len(deviceTwinSet) = 2 /\ deviceTwinCount = 2
    /\ twinState[1] = IntCell(42) /\ TypeOf(2) = TYPE_STRING
    /\ LET st == TwinCallback(Machine, Payload(TRUE, TRUE, Tree(JNone, ValueObj(JStr(S_long)))),
                              deviceTwinCount, [i \in Bindings |-> "ok"])
       IN  \E k \in 1..Len(st.log) : st.log[k].e = "send" /\ st.log[k].i = 2

(***************************************************************************)
(* C13.  As claimed: a type-mismatched value for one registered binding    *)
(* does not stop the dispatch: every other registered binding with a       *)
(* present, type-matched entry in the same document is updated, has its    *)
(* handler invoked and is re-reported, whether it comes before or after    *)
(* the mismatched one.  Read in the claim's favour: the binding holds      *)
(* storage.                                                                *)
(***************************************************************************)
BesideMismatch(i) ==
    /\ Dispatched /\ Registered(i) /\ Sound(i) /\ Offers(last.payload, i)
    /\ \E j \in Bindings \ {i} : Registered(j) /\ Mismatched(last.payload, j)

C13_AsClaimed ==
    \A i \in Bindings :
        BesideMismatch(i)
        => Count("store", i) = 1 /\ Count("handler", i) = 1 /\ Count("send", i) = 1

(***************************************************************************)
(* C13, amended.  A type-mismatched value for one registered binding does  *)
(* not stop the dispatch: every other registered binding that holds        *)
(* storage and has a present, type-matched entry in the same document is   *)
(* still updated (the value narrowed to its type), has its handler invoked *)
(* if one is registered, and has the publish called for it, which submits  *)
(* its fragment if the transport is connected; this holds whether it is    *)
(* registered before or after the mismatched binding, which itself is      *)
(* left alone.                                                             *)
(***************************************************************************)
C13_MismatchDoesNotStopDispatch ==
    \A i \in Bindings :
        BesideMismatch(i)
        => /\ Count("store", i) = 1
           /\ \A k \in At("store", i) :
                  HoldsNarrowed(TypeOf(i), Log[k].val, ValueOf(last.payload, i))
           /\ Count("handler", i) = (IF deviceTwinSet[i].handler THEN 1 ELSE 0)
           /\ Count("connect", i) = 1
           /\ Count("send", i) = Cardinality({k \in At("connect", i) : Log[k].ok})
           /\ \A j \in Bindings \ {i} :
                  Mismatched(last.payload, j) => \A k \in 1..Len(Log) : Log[k].i # j

\* temp (int32) was offered a string and left alone; led, registered after it,
\* was stored, notified and published
C13_Witness ==
    /\ Dispatched /\ Len(deviceTwinSet) = 2 /\ deviceTwinCount = 2
    /\ TypeOf(1) = TYPE_INT /\ twinState[1].t = "int"
    /\ Mismatched(last.payload, 1) /\ Offers(last.payload, 2)
    /\ Count("store", 1) = 0
    /\ Count("store", 2) = 1 /\ Count("handler", 2) = 1 /\ Count("send", 2) = 1

(***************************************************************************)
(* C14.  Partial updates leave absent bindings untouched: a dispatch of a  *)
(* document whose desired tree has no nested object under a registered     *)
(* binding's (dotted) property_name leaves that binding's local value      *)
(* unchanged, does not invoke its handler and submits no publish for it.   *)
(***************************************************************************)
Absent(payload, i) == Delivered(payload) /\ EntryOf(payload, i) = JNone

C14_AbsentBindingUntouched ==
    [][\A i \in Bindings :
          (Dispatched' /\ Registered(i) /\ Absent(last'.payload, i))
          => /\ twinState'[i] = twinState[i]
             /\ \A k \in 1..Len(Log') : Log'[k].i # i]_vars

\* a document with an entry for temp only: temp was stored and published, led
\* holds its storage and nothing happened to it
C14_Witness ==
    /\ Dispatched /\ Len(deviceTwinSet) = 2 /\ deviceTwinCount = 2
    /\ Absent(last.payload, 2) /\ TypeOf(2) \in ScalarTypes /\ twinState[2] # NULL
    /\ Count("store", 1) = 1 /\ Count("send", 1) = 1
    /\ \A k \in 1..Len(Log) : Log[k].i = 1

(***************************************************************************)
(* C15.  Within a dispatch, for each accepted binding the steps occur in   *)
(* this order: the desired value is stored into local_value, then the      *)
(* handler (if registered) is invoked once and observes the new value,     *)
(* then the re-report is made (connection asked for, fragment submitted);  *)
(* the handler is never invoked before the store nor after the submission, *)
(* and never for a binding that was not stored.                            *)
(***************************************************************************)
C15_StoreHandlerReportOrder ==
    \A i \in Bindings :
        Dispatched
        => /\ \A h \in At("handler", i) : \E s \in At("store", i) : s < h
           /\ \A s \in At("store", i) :
                  /\ Count("handler", i) = (IF deviceTwinSet[i].handler THEN 1 ELSE 0)
                  /\ \A h \in At("handler", i) : s < h /\ Log[h].val = Log[s].val
                  /\ \E c \in At("connect", i) :
                         /\ s < c
                         /\ \A h \in At("handler", i) : h < c
                         /\ \A m \in At("send", i) : c < m
                  /\ \A m \in At("send", i) : Log[m].frag = FragmentOf(i, Log[s].val)

\* 42 went to temp: stored, then seen by the handler, then sent as {"temp":42}
C15_Witness ==
    /\ Dispatched /\ Len(deviceTwinSet) = 2 /\ TypeOf(1) = TYPE_INT
    /\ \E s \in At("store", 1) : \E h \in At("handler", 1) : \E m \in At("send", 1) :
           /\ s < h /\ h < m
           /\ Log[s].val = IntCell(42) /\ Log[h].val = IntCell(42)
           /\ Log[m].frag = Frag_temp_42

(***************************************************************************)
(* C16.  Each publish call (TwinReportState or DeviceTwinReportState)      *)
(* makes at most one call to the send-reported-state primitive; when the   *)
(* primitive rejects the request the publish returns failure at once, with *)
(* no second attempt, and when it accepts the publish returns success.     *)
(***************************************************************************)
C16_AtMostOneSendNoRetry ==
    /\ \A i \in Bindings :
           /\ Count("connect", i) <= 1
           /\ Count("send", i) <= Count("connect", i)
    /\ \A k \in 1..Len(Log) :
           Log[k].e = "send"
           => /\ k < Len(Log)
              /\ Log[k + 1] = Ev("ret", Log[k].i, NULL, <<>>, Log[k].ok)
              /\ \E c \in At("connect", Log[k].i) : c < k /\ Log[c].ok
    /\ Published => Log # <<>> /\ Log[Len(Log)].e \in {"ret", "fault"}

\* the transport refused the fragment of a direct publish: one send, failure returned
C16_Witness ==
    /\ Published /\ last.i = 1 /\ Count("send", 1) = 1
    /\ \E k \in At("send", 1) : ~Log[k].ok /\ Log[k].frag # <<>>
    /\ Log[Len(Log)] = Ev("ret", 1, NULL, <<>>, FALSE)

(***************************************************************************)
(* C17.  Dispatching a JSON number v (within the range of int) to an int32 *)
(* binding that holds storage stores v truncated toward zero: a value with *)
(* a fractional part is accepted and stored as its integer part (1.5 as 1, *)
(* -1.5 as -1), not rejected.                                              *)
(***************************************************************************)
C17_IntTruncatesTowardZero ==
    \A i \in Bindings :
        (Dispatched /\ Registered(i) /\ Sound(i) /\ TypeOf(i) = TYPE_INT
            /\ ValueOf(last.payload, i).t = "num" /\ Delivered(last.payload))
        => LET v == ValueOf(last.payload, i).n
               k == twinState[i].n
           IN  /\ Count("store", i) = 1
               /\ twinState[i].t = "int"
               /\ 2 * Abs(k) <= Abs(v) /\ Abs(v) - 2 * Abs(k) < 2
               /\ (v >= 0 => k >= 0) /\ (v <= 0 => k <= 0)
               /\ (v = 3 => k = 1) /\ (v = -3 => k = -1) /\ (v = 84 => k = 42)

\* -1.5 was dispatched to the int32 binding temp, which now holds -1
C17_Witness ==
    /\ Dispatched /\ Len(deviceTwinSet) = 2 /\ TypeOf(1) = TYPE_INT
    /\ ValueOf(last.payload, 1) = JNum(-3)
    /\ twinState[1] = IntCell(-1) /\ Count("store", 1) = 1

(***************************************************************************)
(* C18.  As claimed: in every sequence of open, dispatch, publish and      *)
(* close operations, no dispatch or publish reads or writes through a      *)
(* scalar binding's storage reference while that reference is empty        *)
(* (before open allocated it, after close released it, or when the         *)
(* allocation failed).                                                     *)
(***************************************************************************)
C18_AsClaimed == Total("fault") = 0

(***************************************************************************)
(* Vocabulary of the properties of main.                                   *)
(***************************************************************************)
\* the positions of a call in the calls of main so far
PosOf(call) == {k \in 1..Len(calls) : calls[k] = call}
Called(call) == PosOf(call) # {}
HandlerEvents == {EV_TWIN} \cup Timers(APP_TIMERS)
AtReturn == pc.at = "returned"

\* every call of ClosePeripheralsAndHandlers (main.c) was made exactly n times
ClosedTimes(n) ==
    \A c \in {"lp_stopTimerSet", "lp_stopCloudToDevice", "lp_closePeripheralGpioSet",
              "lp_closeDeviceTwinSet", "lp_closeDevKit", "lp_stopTimerEventLoop"} :
        Cardinality(PosOf(c)) = n

\* timers and cloud-to-device delivery are stopped before the twin set is
\* closed, and no handler or dispatch runs after that
StopsBeforeRelease ==
    /\ \A k \in PosOf("lp_closeDeviceTwinSet") :
           /\ \E a \in PosOf("lp_stopTimerSet") : a < k
           /\ \E b \in PosOf("lp_stopCloudToDevice") : b < k
           /\ \A m \in 1..Len(calls) : m > k => calls[m] \notin HandlerEvents
    /\ (Called("lp_closeDeviceTwinSet") /\ "DeviceTwinSet" \notin running)
       => /\ "TimerSet" \notin running /\ "CloudToDevice" \notin running
          /\ pc.at \in {"close", "exit", "returned"}
          /\ \A i \in Bindings : twinState[i] = NULL

(***************************************************************************)
(* C19.  As claimed: ClosePeripheralsAndHandlers stops the timers and      *)
(* cloud-to-device delivery before it closes the device-twin set, so in    *)
(* every run of main no timer handler or twin dispatch executes after      *)
(* binding storage has been released, and the close sequence runs exactly  *)
(* once, only after termination has been requested.                        *)
(***************************************************************************)
C19_AsClaimed ==
    app = APP_TWIN
    => /\ StopsBeforeRelease
       /\ AtReturn => ClosedTimes(1)
       /\ pc.at \in {"close", "exit"} => terminationRequired

(***************************************************************************)
(* C19, amended.  ClosePeripheralsAndHandlers stops the timers and         *)
(* cloud-to-device delivery before it closes the device-twin set, so in    *)
(* every run of main no timer handler or twin dispatch executes after      *)
(* binding storage has been released; the close sequence never runs twice  *)
(* and runs only after termination has been requested: exactly once in     *)
(* every run in which main returns the termination exit code, and not at   *)
(* all in the run that returns ExitCode_Missing_ID_Scope.                  *)
(***************************************************************************)
C19_ShutdownOrdering ==
    app = APP_TWIN
    => /\ StopsBeforeRelease
       /\ \A k \in 1..Len(calls) : Released(calls[k]) # {} => PosOf(calls[k]) = {k}
       /\ AtReturn
          => IF Len(scopeId) = 0
             THEN returned = ExitCode_Missing_ID_Scope /\ ClosedTimes(0)
             ELSE returned = exitCode /\ ClosedTimes(1)
       /\ (pc.at \in {"close", "exit"} \/ \E k \in 1..Len(calls) : Released(calls[k]) # {})
          => terminationRequired

\* a twin update stored 42 while main ran; after SIGTERM the close sequence
\* released the storage and main returned
C19_Witness ==
    /\ app = APP_TWIN /\ AtReturn /\ Len(deviceTwinSet) = 2
    /\ Called(EV_TWIN) /\ ClosedTimes(1)
    /\ last.op = "CloseDeviceTwinSet"
    /\ \E k \in At("free", 1) : Log[k].val = IntCell(42)
    /\ twinState[1] = NULL /\ running = {}
    /\ returned = ExitCode_TermHandler_SigTerm

(***************************************************************************)
(* C20.  As claimed: if EventLoop_Run fails with an error other than EINTR *)
(* main requests termination with ExitCode_Main_EventLoopFail, leaves the  *)
(* loop, runs ClosePeripheralsAndHandlers and returns the termination exit *)
(* code; a failure with EINTR does not request termination and the loop    *)
(* continues; and when the scope id is empty main returns                  *)
(* ExitCode_Missing_ID_Scope without initializing or closing anything.     *)
(***************************************************************************)
\* the step in which EventLoop_Run returns -1 with EINTR, or with another errno
EintrStep == calls' = Append(calls, EV_EINTR)
FailStep == calls' = Append(calls, EV_FAIL)

\* nothing was initialized or closed, no event handled
Untouched ==
    /\ calls = <<>> /\ running = {}
    /\ deviceTwinCount = 0 /\ \A i \in Bindings : twinState[i] = NULL

LoopFailureEndsMain ==
    /\ Called(EV_FAIL)
       => /\ terminationRequired
          /\ pc.at \in {"loop", "close", "exit", "returned"}
          /\ \A k \in PosOf(EV_FAIL) : \A m \in 1..Len(calls) :
                 m > k => calls[m] \notin LoopEvents
          /\ exitCode \in {ExitCode_Main_EventLoopFail, ExitCode_TermHandler_SigTerm}
    /\ (AtReturn /\ Called(EV_FAIL))
       => /\ returned = exitCode /\ running = {}
          /\ \A k \in 1..Len(calls) : Released(calls[k]) # {} => PosOf(calls[k]) = {k}
          /\ Called("lp_stopTimerSet") /\ Called("lp_closePeripheralGpioSet")
          /\ Called("lp_closeDevKit") /\ Called("lp_stopTimerEventLoop")
          /\ app = APP_TWIN => ClosedTimes(1)

LoopSteps ==
    /\ FailStep
       => /\ terminationRequired' /\ exitCode' = ExitCode_Main_EventLoopFail
          /\ pc'.at = "loop"
    /\ EintrStep
       => /\ pc'.at = "loop"
          /\ exitCode' \in {exitCode, ExitCode_TermHandler_SigTerm}
          /\ terminationRequired'
             => (terminationRequired \/ exitCode' = ExitCode_TermHandler_SigTerm)
    /\ (pc.at = "loop" /\ pc' # pc)
       => pc'.at = (IF terminationRequired THEN "close" ELSE "run")

C20_AsClaimed ==
    /\ [](LoopFailureEndsMain
          /\ (Len(scopeId) = 0
              => /\ pc.at \in {"main", "returned"}
                 /\ AtReturn => returned = ExitCode_Missing_ID_Scope /\ Untouched))
    /\ [][LoopSteps]_vars

(***************************************************************************)
(* C20, amended.  If EventLoop_Run fails with an error other than EINTR    *)
(* main requests termination with ExitCode_Main_EventLoopFail, leaves the  *)
(* loop, runs ClosePeripheralsAndHandlers and returns the termination exit *)
(* code; a failure with EINTR does not request termination (only the       *)
(* SIGTERM handler may have) and the loop goes on to its test; and when    *)
(* the scope id is empty the main of samples/zdemo_hello_world_avnet       *)
(* returns ExitCode_Missing_ID_Scope without initializing or closing any   *)
(* peripheral, twin set or timer, while the main of part_000, which reads  *)
(* no scope id, initializes and runs.                                      *)
(***************************************************************************)
C20_MainLoopTermination ==
    /\ [](LoopFailureEndsMain
          /\ ((Len(scopeId) = 0 /\ app = APP_TWIN)
              => /\ pc.at \in {"main", "returned"}
                 /\ AtReturn => returned = ExitCode_Missing_ID_Scope /\ Untouched)
          /\ ((Len(scopeId) # 0 \/ app = APP_TIMERS)
              => returned # ExitCode_Missing_ID_Scope))
    /\ [][LoopSteps]_vars

\* the loop went on after EINTR, then failed: main closed everything and
\* returned ExitCode_Main_EventLoopFail
C20_Witness ==
    /\ AtReturn /\ returned = ExitCode_Main_EventLoopFail
    /\ \E a \in PosOf(EV_EINTR) : \E b \in PosOf(EV_FAIL) : a < b
    /\ Called("lp_stopTimerEventLoop") /\ running = {}

(***************************************************************************)
(* C21.  After any sequence of timer events led1BlinkIntervalIndex is      *)
(* within 0..led1BlinkIntervalsCount-1, which is 0..4; each event of       *)
(* ButtonPressCheckHandler that detects a press of button A or B advances  *)
(* the index by exactly one modulo 5 and sets led1BlinkTimer to            *)
(* led1BlinkIntervals[index], calling lp_changeTimer once; and an event    *)
(* that detects no press leaves the index and the time of led1BlinkTimer   *)
(* as they were.                                                           *)
(***************************************************************************)
\* the steps that are the run of one handler
ButtonPressCheckStep == Deliver("ButtonPressCheckHandler")

\* the handler that ran last was told of a press by lp_gpioGetState
PressDetected == \E k \in 1..Len(Log) : Log[k].e = "lp_gpioGetState" /\ Log[k].ok

\* the calls of lp_changeTimer the handler that ran last made
ChangedTimers == {k \in 1..Len(Log) : Log[k].e = "lp_changeTimer"}

ButtonPressAdvancesIndex ==
    /\ (ButtonPressCheckStep /\ PressDetected')
       => /\ led1BlinkIntervalIndex' = (led1BlinkIntervalIndex + 1) % 5
          /\ timers'["led1BlinkTimer"] = led1BlinkIntervals[led1BlinkIntervalIndex' + 1]
          /\ Cardinality(ChangedTimers') = 1
          /\ \A k \in ChangedTimers' : Log'[k].frag = <<"led1BlinkTimer">>
    /\ (ButtonPressCheckStep /\ ~PressDetected')
       => /\ led1BlinkIntervalIndex' = led1BlinkIntervalIndex
          /\ timers'["led1BlinkTimer"] = timers["led1BlinkTimer"]
          /\ ChangedTimers' = {}

C21_BlinkIntervalIndexInRange ==
    /\ [](/\ led1BlinkIntervalsCount = 5
          /\ led1BlinkIntervalIndex \in 0..(led1BlinkIntervalsCount - 1))
    /\ [][ButtonPressAdvancesIndex]_vars

\* after a telemetry message, a press took the index from 4 round to 0, and
\* led1BlinkTimer to 125 ms
C21_Witness ==
    /\ last.op = "ButtonPressCheckHandler" /\ PressDetected
    /\ led1BlinkIntervalIndex = 0
    /\ timers["led1BlinkTimer"] = Timespec(0, 125000000)
    /\ msgId > 0

(***************************************************************************)
(* C22.  As claimed: whenever MeasureSensorHandler turns LED2 on, which it *)
(* does after a successful telemetry read and message formatting, it sets  *)
(* the one-shot led2BlinkOffOneShotTimer in the same handler run; LED2 is  *)
(* never turned on without that timer being set; and under fair delivery   *)
(* of timer events LED2 is eventually turned off by Led2OffHandler, so     *)
(* that main, after which no handler runs, never returns with LED2 on.     *)
(***************************************************************************)
MeasureSensorStep == Deliver("MeasureSensorHandler")
Led2OffStep == Deliver("Led2OffHandler")

\* the calls with which the handler that ran last turned LED2 on, and set the
\* one-shot timer
Led2OnCalls == {k \in 1..Len(Log) : Log[k].e = "lp_gpioOn" /\ Log[k].frag = <<"led2">>}
OneShotCalls ==
    {k \in 1..Len(Log) :
        Log[k].e = "lp_setOneShotTimer" /\ Log[k].frag = <<"led2BlinkOffOneShotTimer">>}
Succeeded(call) == \E k \in 1..Len(Log) : Log[k].e = call /\ Log[k].ok

Led2IsOn == gpio["led2"]
OffTimerSet == timers["led2BlinkOffOneShotTimer"] # Disarmed

Led2OnSetsOffTimer ==
    /\ MeasureSensorStep
       => /\ (Succeeded("lp_readTelemetry")' /\ Succeeded("snprintf")') <=> Led2OnCalls' # {}
          /\ Led2OnCalls' # {}
             => /\ Led2IsOn'
                /\ \A k \in Led2OnCalls' : \E m \in OneShotCalls' : m > k
                /\ timers'["led2BlinkOffOneShotTimer"] = led2BlinkPeriod
    /\ (~Led2IsOn /\ Led2IsOn') => (MeasureSensorStep /\ OffTimerSet')
    /\ (Led2IsOn /\ ~Led2IsOn') => Led2OffStep

C22_AsClaimed ==
    /\ [][Led2OnSetsOffTimer]_vars
    /\ [](AtReturn => ~Led2IsOn)
    /\ (Led2IsOn ~> ~Led2IsOn)

(***************************************************************************)
(* C22, amended.  Whenever MeasureSensorHandler turns LED2 on, which it    *)
(* does after a successful telemetry read and message formatting, it sets  *)
(* the one-shot led2BlinkOffOneShotTimer in the same handler run; LED2 is  *)
(* never turned on without that timer being set; and under fair delivery   *)
(* of timer events LED2 is eventually turned off by Led2OffHandler, unless *)
(* termination is requested first (by SIGTERM, by a failure of the event   *)
(* loop, or by a handler, Led2OffHandler included, that cannot consume its *)
(* event), in which case main leaves the loop with LED2 on.                *)
(***************************************************************************)
C22_Led2OnArmsOffTimer ==
    /\ [][Led2OnSetsOffTimer]_vars
    /\ (Led2IsOn ~> (~Led2IsOn \/ terminationRequired))

\* MeasureSensorHandler turned LED2 on and Led2OffHandler, run by the one-shot
\* timer, turned it off: the timer is disarmed again
C22_Witness ==
    /\ last.op = "Led2OffHandler" /\ Succeeded("ConsumeEventLoopTimerEvent")
    /\ ~Led2IsOn /\ ~OffTimerSet
    /\ msgId > 0 /\ ~terminationRequired

====
